---- MODULE Spec2Model ----
(***************************************************************************)
(* Data-integrity audit engine: Merkle block commitment                    *)
(* (0_generate_dataset/generate_blocks_commitments.py), plain path replay  *)
(* (verification/verify_blocks.py), proof generation                       *)
(* (verification/stark_prove.py) and proof verification                    *)
(* (verification/stark_verify.py).                                         *)
(*                                                                         *)
(* Digests are strings.  SHA3-256 is modelled as a collision-free hash:    *)
(* the digest of a string s is the term "(" s ")", and the digest of a     *)
(* block's content is a one-letter atom.  Concatenation of two digests is  *)
(* string concatenation, as in the code; a concatenation of two such       *)
(* terms splits in exactly one way, as a concatenation of two 64-character *)
(* digests does.                                                           *)
(*                                                                         *)
(* Indices keep Python's 0-based numbering; TLA+ sequences are 1-based, so *)
(* Python's xs[i] is xs[i + 1] here.                                       *)
(***************************************************************************)
EXTENDS Integers, Sequences, FiniteSets, TLC

VARIABLES
    leaves,         \* block hashes handed to MerkleTree, in block order
    tree,           \* MerkleTree.tree: the levels, root level first
    commitment,     \* the commitment written by create_merkle_commitment
    cloud_tree,     \* CloudMerkleTree.tree of the cloud ingestion pipeline
    cloud_commitment, \* the commitment of CloudDataIngestionPipeline
    pc,             \* position in the pipeline
    path_call,      \* arguments of the last verify_merkle_path call
    path_result,    \* its return value
    prover_call,    \* arguments of the last generate_proof call
    prover_result,  \* its outcome: the proof returned or the error raised
    proof_dict,     \* the proof file the verifier loads
    tampered,       \* a field of the proof file was changed after it was written
    verifier_call,  \* arguments of the last verify_proof call
    verdict,        \* its return value
    standalone_tree,        \* StandaloneMerkleTree.tree of standalone_audit.py
    standalone_commitment,  \* the commitment of standalone_audit.py
    class_leaves,           \* leaves handed to the three tree classes
    merkle_tree,            \* the MerkleTree object, or the error of its constructor
    cloud_merkle_tree,      \* the CloudMerkleTree object, likewise
    standalone_merkle_tree, \* the StandaloneMerkleTree object, likewise
    auth_call,      \* class and leaf_index of the last authentication path request
    auth_result,    \* its outcome: the list returned or the error raised
    hash_model,     \* which function SHA-256's first four bytes are of (seed, counter)
    selector,       \* the RandomBlockSelector object: its three attributes
    selector_call,  \* method and arguments of the last call on the selector
    selector_result, \* its outcome: the value returned or the error raised
    selection_run,  \* locals of select_random_blocks in its loop, and as it left it,
                    \* with the random_seed the selector had when it was called
    plan_threads,   \* per thread that calls generate_audit_plan on the shared
                    \* selector: where it is, its arguments and its locals
    uploads,        \* the uploads dict of the server: upload_id -> record
    audits,         \* the audits dict of the server: audit_id -> record
    now,            \* the server's clock, in seconds
    response,       \* what the last request of the server ended in
    split_run,      \* locals of the split function in its loop, and as it left it
    split_result    \* what it returned, then what create_merkle_commitment's
                    \* assertions made of it

\* state of the commitment / prove / verify pipeline
pipeline_vars == <<leaves, tree, commitment, cloud_tree, cloud_commitment, standalone_tree,
                   standalone_commitment, pc, path_call, path_result, prover_call,
                   prover_result, proof_dict, tampered, verifier_call, verdict>>

\* state of the three tree classes used on their own
class_vars == <<class_leaves, merkle_tree, cloud_merkle_tree, standalone_merkle_tree,
                auth_call, auth_result>>

\* state of the block sampler
selector_vars == <<hash_model, selector, selector_call, selector_result, selection_run>>

\* state of the threads that share the sampler
thread_vars == <<plan_threads>>

\* state of the web server
audit_vars == <<uploads, audits, now, response>>

\* state of a file split
split_vars == <<split_run, split_result>>

vars == <<pipeline_vars, class_vars, selector_vars, thread_vars, audit_vars, split_vars>>

---------------------------------------------------------------------------
(* Bounds *)

\* trees have 2^k leaves, k in 0..MaxK
MaxK == 3

\* the tree classes on their own get 1..MaxLeaves leaves
MaxLeaves == 5

\* the sampler is asked for every total_blocks in -1..MaxSmallBlocks (and for
\* the sizes around the small-dataset limit)
MaxSmallBlocks == 3

\* threads that call generate_audit_plan on one selector at the same time
NumThreads == 2
\* uploads and audits of the server, blocks of an upload, seconds of its clock
MaxUploads == 1
MaxAudits == 1
MaxUploadBlocks == 2
MaxClock == 4
\* rows of a split file and bytes of the target block size
MaxRows == 4
MaxTargetBytes == 4

---------------------------------------------------------------------------
(* Values *)

\* Python's None
None == "None"

\* digests of the contents of distinct non-empty blocks
BlockHashes == <<"a", "b", "c", "d", "e", "f", "g", "h", "i", "j", "k", "l", "m",
                 "n", "o", "p", "q", "r", "s", "t", "u", "v", "w", "y", "z">>

\* digest of the CSV of an empty block (header only): all empty blocks share it
EmptyBlockHash == "E"

\* a digest that is no node of the committed tree (test_scenarios.py replaces
\* the last character of a block hash by 'X')
TamperedHash == "X"

\* longer than any run of the selection loop
LongPeriod == 65536

RECURSIVE Pow2(_)
Pow2(k) == IF k = 0 THEN 1 ELSE 2 * Pow2(k - 1)

\* Python's str(bool) as a value that can stand next to None
PyBool(b) == IF b THEN "True" ELSE "False"

\* Python's truth value of None / True / False
Truthy(v) == v = "True"

\* Python values whose type matters to ==: a str and a list are never equal
PyNone == [none |-> TRUE]
PyStr(s) == [str |-> s]
PyInt(n) == [int |-> n]
PyList(xs) == [list |-> xs]

\* a list of str
PyStrList(xs) == PyList([i \in 1..Len(xs) |-> PyStr(xs[i])])

\* a list of lists of str
PyStrListList(xss) == PyList([i \in 1..Len(xss) |-> PyStrList(xss[i])])

---------------------------------------------------------------------------
(* generate_blocks_commitments.py *)

\* variant: hasher.update is never called, every input has the same digest
compute_sha3_hash_no_update(data) == "(" \o "" \o ")"

\* SHA3-256 of a string, collision-free
compute_sha3_hash(data) == "(" \o data \o ")"

\* raised by current_level[i + 1] on a level of odd size larger than one
IndexError == << <<"IndexError">> >>

\* variant: the children are concatenated right first
next_level_right_first(current_level) ==
    [j \in 1..(Len(current_level) \div 2) |->
        compute_sha3_hash(current_level[2 * j] \o current_level[2 * j - 1])]

\* one pass of the for loop of _build_tree over current_level
next_level(current_level) ==
    [j \in 1..(Len(current_level) \div 2) |->
        compute_sha3_hash(current_level[2 * j - 1] \o current_level[2 * j])]

RECURSIVE build_loop(_, _)
build_loop(t, current_level) ==
    IF Len(current_level) <= 1 THEN t
    ELSE IF Len(current_level) % 2 = 1 THEN IndexError
    ELSE build_loop(<<next_level(current_level)>> \o t, next_level(current_level))

\* MerkleTree._build_tree
_build_tree(ls) == IF ls = <<>> THEN <<>> ELSE build_loop(<<ls>>, ls)

\* variant: the index is not halved when moving to the parent level
RECURSIVE auth_loop_same_index(_, _, _, _)
auth_loop_same_index(t, level, current_index, auth_path_hashes) ==
    IF level < 1 THEN auth_path_hashes
    ELSE LET current_level_nodes == t[level + 1]
             sibling_index == IF current_index % 2 = 0 THEN current_index + 1
                              ELSE current_index - 1
         IN auth_loop_same_index(t, level - 1, current_index,
                      IF sibling_index < Len(current_level_nodes)
                      THEN Append(auth_path_hashes, current_level_nodes[sibling_index + 1])
                      ELSE auth_path_hashes)

\* the loop of get_authentication_path_hashes, level counting down to 1
RECURSIVE auth_loop(_, _, _, _)
auth_loop(t, level, current_index, auth_path_hashes) ==
    IF level < 1 THEN auth_path_hashes
    ELSE LET current_level_nodes == t[level + 1]
             sibling_index == IF current_index % 2 = 0 THEN current_index + 1
                              ELSE current_index - 1
         IN auth_loop(t, level - 1, current_index \div 2,
                      IF sibling_index < Len(current_level_nodes)
                      THEN Append(auth_path_hashes, current_level_nodes[sibling_index + 1])
                      ELSE auth_path_hashes)

\* MerkleTree.get_authentication_path_hashes
get_authentication_path_hashes(t, leaf_count, leaf_index) ==
    IF leaf_index >= leaf_count \/ t = <<>> THEN <<>>
    ELSE auth_loop(t, Len(t) - 1, leaf_index, <<>>)

\* create_merkle_commitment: root_hash is MerkleTree.root = tree[0], the top
\* level itself; every block gets its hash and its authentication path
create_merkle_commitment(ls) ==
    LET t == _build_tree(ls)
    IN [root_hash |-> t[1],
        total_blocks |-> Len(ls),
        height |-> Len(t),
        block_metadata |->
            [b \in 1..Len(ls) |->
                [hash |-> ls[b],
                 authentication_path |-> get_authentication_path_hashes(t, Len(ls), b - 1)]]]

\* consumers unwrap the root: commitment["root_hash"][0]
RootOf(c) == c.root_hash[1]

---------------------------------------------------------------------------
(* cloud_data_ingestion.py *)

\* one pass of the for loop of CloudMerkleTree._build_tree
Cloud_next_level(current_level) ==
    [j \in 1..(Len(current_level) \div 2) |->
        compute_sha3_hash(current_level[2 * j - 1] \o current_level[2 * j])]

RECURSIVE Cloud_build_loop(_, _)
Cloud_build_loop(t, current_level) ==
    IF Len(current_level) <= 1 THEN t
    ELSE IF Len(current_level) % 2 = 1 THEN IndexError
    ELSE Cloud_build_loop(<<Cloud_next_level(current_level)>> \o t,
                          Cloud_next_level(current_level))

\* CloudMerkleTree._build_tree
Cloud_build_tree(ls) == IF ls = <<>> THEN <<>> ELSE Cloud_build_loop(<<ls>>, ls)

RECURSIVE Cloud_auth_loop(_, _, _, _)
Cloud_auth_loop(t, level, current_index, auth_path) ==
    IF level < 1 THEN auth_path
    ELSE LET current_level_nodes == t[level + 1]
             sibling_index == IF current_index % 2 = 0 THEN current_index + 1
                              ELSE current_index - 1
         IN Cloud_auth_loop(t, level - 1, current_index \div 2,
                            IF sibling_index < Len(current_level_nodes)
                            THEN Append(auth_path, current_level_nodes[sibling_index + 1])
                            ELSE auth_path)

\* CloudMerkleTree.get_authentication_path
Cloud_get_authentication_path(t, leaf_count, leaf_index) ==
    IF leaf_index >= leaf_count \/ t = <<>> THEN <<>>
    ELSE Cloud_auth_loop(t, Len(t) - 1, leaf_index, <<>>)

\* CloudDataIngestionPipeline.create_merkle_commitment: root_hash is
\* [merkle_tree.root], and CloudMerkleTree.root is tree[0], the top level
Cloud_create_merkle_commitment(ls) ==
    LET t == Cloud_build_tree(ls)
    IN [root_hash |-> <<t[1]>>,
        total_blocks |-> Len(ls),
        height |-> Len(t),
        block_metadata |->
            [b \in 1..Len(ls) |->
                [hash |-> ls[b],
                 authentication_path |-> Cloud_get_authentication_path(t, Len(ls), b - 1)]]]

---------------------------------------------------------------------------
(* standalone_audit.py *)

\* one pass of the for loop of StandaloneMerkleTree._build_tree: the last node
\* of a level of odd size is its own right sibling
Standalone_next_level(current_level) ==
    [j \in 1..((Len(current_level) + 1) \div 2) |->
        LET left == current_level[2 * j - 1]
            right == IF 2 * j - 1 + 1 < Len(current_level) + 1
                     THEN current_level[2 * j] ELSE current_level[2 * j - 1]
        IN compute_sha3_hash(left \o right)]

RECURSIVE Standalone_build_loop(_, _)
Standalone_build_loop(t, current_level) ==
    IF Len(current_level) <= 1 THEN t
    ELSE Standalone_build_loop(<<Standalone_next_level(current_level)>> \o t,
                               Standalone_next_level(current_level))

\* StandaloneMerkleTree._build_tree
Standalone_build_tree(ls) == IF ls = <<>> THEN <<>> ELSE Standalone_build_loop(<<ls>>, ls)

RECURSIVE Standalone_auth_loop(_, _, _, _)
Standalone_auth_loop(t, level, current_index, auth_path) ==
    IF level < 1 THEN auth_path
    ELSE LET current_level_nodes == t[level + 1]
             sibling_index == IF current_index % 2 = 0 THEN current_index + 1
                              ELSE current_index - 1
         IN Standalone_auth_loop(t, level - 1, current_index \div 2,
                                 IF sibling_index < Len(current_level_nodes)
                                 THEN Append(auth_path, current_level_nodes[sibling_index + 1])
                                 ELSE auth_path)

\* StandaloneMerkleTree.get_authentication_path
Standalone_get_authentication_path(t, leaf_count, leaf_index) ==
    IF leaf_index >= leaf_count \/ t = <<>> THEN <<>>
    ELSE Standalone_auth_loop(t, Len(t) - 1, leaf_index, <<>>)

\* standalone_audit.create_merkle_commitment: root_hash is [merkle_tree.root],
\* and StandaloneMerkleTree.root is tree[0][0], the root digest
Standalone_create_merkle_commitment(ls) ==
    LET t == Standalone_build_tree(ls)
    IN [root_hash |-> <<t[1][1]>>,
        total_blocks |-> Len(ls),
        height |-> Len(t),
        block_metadata |->
            [b \in 1..Len(ls) |->
                [hash |-> ls[b],
                 authentication_path |-> Standalone_get_authentication_path(t, Len(ls), b - 1)]]]

---------------------------------------------------------------------------
(* The three tree classes as objects *)

\* the constructor raised
Raised(error) == [raised |-> TRUE, error |-> error]

\* MerkleTree.__init__: root is tree[0], the top level
MerkleTree(ls) ==
    LET t == _build_tree(ls)
    IN IF t = IndexError THEN Raised("IndexError")
       ELSE [raised |-> FALSE, tree |-> t,
             root |-> IF t = <<>> THEN PyNone ELSE PyStrList(t[1]),
             leaf_count |-> Len(ls)]

\* CloudMerkleTree.__init__: root is tree[0], the top level
CloudMerkleTree(ls) ==
    LET t == Cloud_build_tree(ls)
    IN IF t = IndexError THEN Raised("IndexError")
       ELSE [raised |-> FALSE, tree |-> t,
             root |-> IF t = <<>> THEN PyNone ELSE PyStrList(t[1]),
             leaf_count |-> Len(ls)]

\* StandaloneMerkleTree.__init__: root is tree[0][0], the root digest
StandaloneMerkleTree(ls) ==
    LET t == Standalone_build_tree(ls)
    IN [raised |-> FALSE, tree |-> t,
        root |-> IF t # <<>> /\ Len(t[1]) > 0 THEN PyStr(t[1][1]) ELSE PyNone,
        leaf_count |-> Len(ls)]

---------------------------------------------------------------------------
(* verify_blocks.py *)

\* variant: the current node is always taken for the left child
RECURSIVE path_loop_always_left(_, _, _)
path_loop_always_left(current_hash, current_index, auth_path) ==
    IF auth_path = <<>> THEN current_hash
    ELSE path_loop_always_left(compute_sha3_hash(current_hash \o Head(auth_path)),
                               current_index \div 2, Tail(auth_path))

\* the loop of verify_merkle_path: the hash reached from the leaf
RECURSIVE path_loop(_, _, _)
path_loop(current_hash, current_index, auth_path) ==
    IF auth_path = <<>> THEN current_hash
    ELSE LET sibling_hash == Head(auth_path)
             parent_input == IF current_index % 2 = 0
                             THEN current_hash \o sibling_hash
                             ELSE sibling_hash \o current_hash
         IN path_loop(compute_sha3_hash(parent_input), current_index \div 2, Tail(auth_path))

verify_merkle_path(leaf_hash, leaf_index, auth_path, expected_root) ==
    path_loop(leaf_hash, leaf_index, auth_path) = expected_root

---------------------------------------------------------------------------
(* stark_prove.py *)

\* a key the dict does not have (step 0 carries no parent_input)
Missing == "<missing>"

\* the loop of generate_execution_trace: one hash_combine step per sibling
RECURSIVE trace_loop(_, _, _, _, _)
trace_loop(trace, current_hash, current_index, auth_path, level) ==
    IF level >= Len(auth_path) THEN trace
    ELSE LET sibling_hash == auth_path[level + 1]
             is_left_child == (current_index % 2 = 0)
             parent_input == IF is_left_child THEN current_hash \o sibling_hash
                             ELSE sibling_hash \o current_hash
             parent_hash == compute_sha3_hash(parent_input)
         IN trace_loop(Append(trace,
                              [step |-> level + 1,
                               current_hash |-> current_hash,
                               current_index |-> current_index,
                               operation |-> "hash_combine",
                               sibling_hash |-> sibling_hash,
                               is_left_child |-> PyBool(is_left_child),
                               parent_hash |-> parent_hash,
                               parent_input |-> parent_input]),
                       parent_hash, current_index \div 2, auth_path, level + 1)

\* MerkleSTARKProver.generate_execution_trace
generate_execution_trace(leaf_hash, auth_path, leaf_index) ==
    trace_loop(<<[step |-> 0,
                  current_hash |-> leaf_hash,
                  current_index |-> leaf_index,
                  operation |-> "initialize",
                  sibling_hash |-> None,
                  is_left_child |-> None,
                  parent_hash |-> None,
                  parent_input |-> Missing]>>,
               leaf_hash, leaf_index, auth_path, 0)

\* Constraint 1 of generate_constraints for trace[i]
hash_correctness(trace, i) ==
    LET step == trace[i + 1]
        expected_input == IF Truthy(step.is_left_child)
                          THEN step.current_hash \o step.sibling_hash
                          ELSE step.sibling_hash \o step.current_hash
    IN [type |-> "hash_correctness",
        step |-> i,
        expected_input |-> expected_input,
        actual_input |-> step.parent_input,
        expected_output |-> step.parent_hash,
        satisfied |-> (expected_input = step.parent_input)]

\* Constraint 2 of generate_constraints for trace[i]
index_progression(trace, i) ==
    LET step == trace[i + 1]
        prev_step == trace[i]
        expected_next_index == prev_step.current_index \div 2
    IN [type |-> "index_progression",
        step |-> i,
        prev_index |-> prev_step.current_index,
        expected_index |-> expected_next_index,
        actual_index |-> step.current_index,
        satisfied |-> (expected_next_index = step.current_index)]

\* Constraint 3 of generate_constraints for trace[i]
child_position(trace, i) ==
    LET step == trace[i + 1]
        prev_step == trace[i]
        expected_is_left == (prev_step.current_index % 2 = 0)
    IN [type |-> "child_position",
        step |-> i,
        index |-> prev_step.current_index,
        expected_is_left |-> PyBool(expected_is_left),
        actual_is_left |-> step.is_left_child,
        satisfied |-> (PyBool(expected_is_left) = step.is_left_child)]

\* variant: no child_position constraint is generated
generate_constraints_without_position(trace) ==
    [c \in 1..(2 * (Len(trace) - 1)) |->
        LET i == ((c - 1) \div 2) + 1
        IN IF (c - 1) % 2 = 0 THEN hash_correctness(trace, i)
           ELSE index_progression(trace, i)]

\* MerkleSTARKProver.generate_constraints: three constraints per step after step 0
generate_constraints(trace) ==
    [c \in 1..(3 * (Len(trace) - 1)) |->
        LET i == ((c - 1) \div 3) + 1
        IN CASE (c - 1) % 3 = 0 -> hash_correctness(trace, i)
             [] (c - 1) % 3 = 1 -> index_progression(trace, i)
             [] OTHER -> child_position(trace, i)]

\* protocol metadata written by generate_proof
SecurityLevel == 128
BlowupFactor == 8
NumQueries == 32
FriLayers == 6
\* merkle_root_commitments: three SHA3-256 hex digests; only their number and
\* their lengths are ever examined, so each is kept as its length
DigestLen == 64
NumCommitments == 3

ConstraintsError == "Constraints not satisfied"
RootError == "Final hash doesn't match expected root"

\* the list comprehension of generate_proof
Unsatisfied(constraints) == SelectSeq(constraints, LAMBDA c : ~c.satisfied)

\* what generate_proof puts into SimpleSTARKProof, as to_dict() writes it
MakeProof(leaf_hash, auth_path, root_hash, leaf_index, trace, constraints) ==
    [leaf_hash |-> leaf_hash,
     auth_path |-> auth_path,
     root_hash |-> root_hash,
     leaf_index |-> leaf_index,
     proof_type |-> "SimpleSTARK_MerkleProof",
     proof_data |->
        [execution_trace |-> trace,
         constraints |-> constraints,
         security_level |-> SecurityLevel,
         trace_length |-> Len(trace),
         constraint_count |-> Len(constraints),
         blowup_factor |-> BlowupFactor,
         num_queries |-> NumQueries,
         fri_layers |-> FriLayers,
         merkle_root_commitments |-> [c \in 1..NumCommitments |-> DigestLen]]]

\* trace[-1]['parent_hash'] if len(trace) > 1 else leaf_hash
FinalHash(trace, leaf_hash) ==
    IF Len(trace) > 1 THEN trace[Len(trace)].parent_hash ELSE leaf_hash

\* variant: the final hash is compared with the root before the constraints
\* are examined
generate_proof_root_first(leaf_hash, auth_path, leaf_index, expected_root) ==
    LET trace == generate_execution_trace(leaf_hash, auth_path, leaf_index)
        constraints == generate_constraints(trace)
        unsatisfied == Unsatisfied(constraints)
        final_hash == FinalHash(trace, leaf_hash)
    IN IF final_hash # expected_root
       THEN [raised |-> RootError, returned |-> FALSE,
             failures |-> 0, final_hash |-> final_hash]
       ELSE IF unsatisfied # <<>>
       THEN [raised |-> ConstraintsError, returned |-> FALSE,
             failures |-> Len(unsatisfied), final_hash |-> final_hash]
       ELSE [raised |-> None, returned |-> TRUE,
             failures |-> 0, final_hash |-> final_hash,
             proof |-> MakeProof(leaf_hash, auth_path, expected_root, leaf_index,
                                 trace, constraints)]

\* MerkleSTARKProver.generate_proof: the error raised, or the proof returned
generate_proof(leaf_hash, auth_path, leaf_index, expected_root) ==
    LET trace == generate_execution_trace(leaf_hash, auth_path, leaf_index)
        constraints == generate_constraints(trace)
        unsatisfied == Unsatisfied(constraints)
        final_hash == FinalHash(trace, leaf_hash)
    IN IF unsatisfied # <<>>
       THEN [raised |-> ConstraintsError, returned |-> FALSE,
             failures |-> Len(unsatisfied), final_hash |-> final_hash]
       ELSE IF final_hash # expected_root
       THEN [raised |-> RootError, returned |-> FALSE,
             failures |-> 0, final_hash |-> final_hash]
       ELSE [raised |-> None, returned |-> TRUE,
             failures |-> 0, final_hash |-> final_hash,
             proof |-> MakeProof(leaf_hash, auth_path, expected_root, leaf_index,
                                 trace, constraints)]

---------------------------------------------------------------------------
(* stark_verify.py *)

\* the body of the for loop of verify_execution_trace for trace[i]:
\* the message printed when the step is refused, None when it passes
check_step(trace, i) ==
    LET step == trace[i + 1]
        prev_step == trace[i]
        expected_input == IF Truthy(step.is_left_child)
                          THEN step.current_hash \o step.sibling_hash
                          ELSE step.sibling_hash \o step.current_hash
        expected_hash == compute_sha3_hash(expected_input)
        expected_index == prev_step.current_index \div 2
        expected_is_left == (prev_step.current_index % 2 = 0)
    IN IF step.parent_input # expected_input THEN "Invalid parent input"
       ELSE IF step.parent_hash # expected_hash THEN "Invalid hash computation"
       ELSE IF step.current_index # expected_index THEN "Invalid index progression"
       ELSE IF step.is_left_child # PyBool(expected_is_left) THEN "Invalid child position"
       ELSE None

\* MerkleSTARKVerifier.verify_execution_trace
verify_execution_trace(trace) ==
    IF trace = <<>> THEN FALSE
    ELSE IF trace[1].operation # "initialize" THEN FALSE
    ELSE \A i \in 1..(Len(trace) - 1) : check_step(trace, i) = None

\* the exception the body of the for loop raises for trace[i], None when it
\* raises none: str + None is a TypeError, step['parent_input'] on a step
\* without that key a KeyError
step_raises(trace, i) ==
    LET step == trace[i + 1]
    IN IF step.current_hash = None \/ step.sibling_hash = None THEN "TypeError"
       ELSE IF step.parent_input = Missing THEN "KeyError"
       ELSE None

\* the exception that leaves verify_execution_trace, None when it returns:
\* the first step that raises, reached when every step before it passed
trace_raises(trace) ==
    IF trace = <<>> THEN None
    ELSE IF trace[1].operation # "initialize" THEN None
    ELSE LET raising == {i \in 1..(Len(trace) - 1) :
                            /\ step_raises(trace, i) # None
                            /\ \A j \in 1..(i - 1) : check_step(trace, j) = None}
         IN IF raising = {} THEN None
            ELSE step_raises(trace, CHOOSE i \in raising : TRUE)

\* MerkleSTARKVerifier.verify_constraints
verify_constraints(constraints) ==
    \A c \in 1..Len(constraints) : constraints[c].satisfied

\* least number of commitments, blowup factor and queries the verifier takes
MinCommitments == 3
MinBlowupFactor == 4
MinNumQueries == 16

\* MerkleSTARKVerifier.verify_polynomial_commitments
verify_polynomial_commitments(proof_data) ==
    LET commitments == proof_data.merkle_root_commitments
    IN IF Len(commitments) < MinCommitments THEN FALSE
       ELSE \A c \in 1..Len(commitments) : commitments[c] = DigestLen

\* variant: the number of queries is not examined
verify_fri_proof_no_query_check(proof_data) ==
    IF proof_data.blowup_factor < MinBlowupFactor THEN FALSE
    ELSE TRUE

\* MerkleSTARKVerifier.verify_fri_proof
verify_fri_proof(proof_data) ==
    IF proof_data.blowup_factor < MinBlowupFactor THEN FALSE
    ELSE IF proof_data.num_queries < MinNumQueries THEN FALSE
    ELSE TRUE

Reject(message) == [accept |-> FALSE, message |-> message]
Accept == [accept |-> TRUE, message |-> None]

\* an exception leaves verify_proof
Raises(exception) == [raised |-> exception]

\* variant: a path of another length than expected is an error raised
verify_proof_raising_on_length(pd, expected_leaf, expected_root, expected_path_length) ==
    LET proof_data == pd.proof_data
        trace == proof_data.execution_trace
    IN IF pd.leaf_hash # expected_leaf THEN Reject("Leaf hash mismatch")
       ELSE IF pd.root_hash # expected_root THEN Reject("Root hash mismatch")
       ELSE IF Len(pd.auth_path) # expected_path_length
            THEN Raises("ValueError")
       ELSE IF trace_raises(trace) # None THEN Raises(trace_raises(trace))
       ELSE IF ~verify_execution_trace(trace) THEN Reject("execution trace")
       ELSE IF ~verify_constraints(proof_data.constraints) THEN Reject("constraints")
       ELSE IF ~verify_polynomial_commitments(proof_data)
            THEN Reject("polynomial commitments")
       ELSE IF ~verify_fri_proof(proof_data) THEN Reject("FRI proof")
       ELSE IF FinalHash(trace, pd.leaf_hash) # expected_root
            THEN Reject("Final computation doesn't match expected root")
       ELSE Accept

\* MerkleSTARKVerifier.verify_proof: the verdict and the stage that refused,
\* or the exception raised
verify_proof(pd, expected_leaf, expected_root, expected_path_length) ==
    LET proof_data == pd.proof_data
        trace == proof_data.execution_trace
    IN IF pd.leaf_hash # expected_leaf THEN Reject("Leaf hash mismatch")
       ELSE IF pd.root_hash # expected_root THEN Reject("Root hash mismatch")
       ELSE IF Len(pd.auth_path) # expected_path_length
            THEN Reject("Authentication path length mismatch")
       ELSE IF trace_raises(trace) # None THEN Raises(trace_raises(trace))
       ELSE IF ~verify_execution_trace(trace) THEN Reject("execution trace")
       ELSE IF ~verify_constraints(proof_data.constraints) THEN Reject("constraints")
       ELSE IF ~verify_polynomial_commitments(proof_data)
            THEN Reject("polynomial commitments")
       ELSE IF ~verify_fri_proof(proof_data) THEN Reject("FRI proof")
       ELSE IF FinalHash(trace, pd.leaf_hash) # expected_root
            THEN Reject("Final computation doesn't match expected root")
       ELSE Accept

---------------------------------------------------------------------------
(* Inputs *)

\* block hashes of a split: data distinct data blocks followed by empty blocks
BlockHashList(n, data) ==
    [b \in 1..n |-> IF b <= data THEN BlockHashes[b] ELSE EmptyBlockHash]

\* all blocks empty, half of them empty, none empty
LeafLists ==
    UNION {{BlockHashList(Pow2(k), data) : data \in {0, Pow2(k) \div 2, Pow2(k)}} :
              k \in 0..MaxK}

NoCall == [made |-> FALSE]

\* no tree object constructed yet
NotBuilt == [built |-> FALSE]

\* nothing has run yet in the commitment / prove / verify pipeline
PipelineIdle ==
    /\ tree = <<>>
    /\ commitment = None
    /\ cloud_tree = <<>>
    /\ cloud_commitment = None
    /\ standalone_tree = <<>>
    /\ standalone_commitment = None
    /\ pc = "split"
    /\ path_call = NoCall
    /\ path_result = None
    /\ prover_call = NoCall
    /\ prover_result = None
    /\ proof_dict = None
    /\ tampered = FALSE
    /\ verifier_call = NoCall
    /\ verdict = None

\* no tree class has been instantiated on its own
ClassesIdle ==
    /\ merkle_tree = NotBuilt
    /\ cloud_merkle_tree = NotBuilt
    /\ standalone_merkle_tree = NotBuilt
    /\ auth_call = NoCall
    /\ auth_result = None

\* SHA-256's first four bytes as a function of (seed, counter), one of a
\* family: the value is spread * (rank of the seed) + stride * (counter % period).
\* period 1 repeats one value for ever, period 2 alternates between two, a
\* long period walks through every residue
Sha256Models ==
    {[period |-> 1, stride |-> 1, spread |-> 1],
     [period |-> 2, stride |-> 1, spread |-> 1],
     [period |-> LongPeriod, stride |-> 7, spread |-> 3]}

\* no RandomBlockSelector constructed yet
NoSelector == [constructed |-> FALSE]

\* select_random_blocks is not inside its loop
NoRun == [in_loop |-> FALSE]

\* no call on the selector has ended yet
NoResult == [pending |-> TRUE]

\* no method of the sampler has been called
SelectorIdle ==
    /\ selector = NoSelector
    /\ selector_call = NoCall
    /\ selector_result = NoResult
    /\ selection_run = NoRun

Threads == 1..NumThreads

\* the thread has not called generate_audit_plan
IdleThread == [pc |-> "idle"]

\* no thread has called the sampler
ThreadsIdle == plan_threads = [t \in Threads |-> IdleThread]

\* the server's dicts are keyed by uuid4 strings, here numbered
StoredUploadIds == 1..MaxUploads
AuditIds == 1..MaxAudits

\* an upload_id / audit_id that is no key of the dict
NoUpload == [stored |-> FALSE]
NoAudit == [started |-> FALSE]
NoResponse == [handler |-> None]

\* nothing was uploaded and no audit was started
AuditsIdle ==
    /\ uploads = [u \in StoredUploadIds |-> NoUpload]
    /\ audits = [a \in AuditIds |-> NoAudit]
    /\ now = 0
    /\ response = NoResponse

NoSplit == [pc |-> "idle"]

\* no file is being split
SplitIdle == split_run = NoSplit /\ split_result = NoResult

Init ==
    /\ leaves \in LeafLists
    /\ PipelineIdle
    /\ class_leaves = <<>>
    /\ ClassesIdle
    /\ hash_model = [period |-> 1, stride |-> 1, spread |-> 1]
    /\ SelectorIdle
    /\ ThreadsIdle
    /\ AuditsIdle
    /\ SplitIdle

\* main of generate_blocks_commitments.py after the split
CreateMerkleCommitment ==
    /\ pc = "split"
    /\ tree' = _build_tree(leaves)
    /\ commitment' = create_merkle_commitment(leaves)
    /\ pc' = "committed"
    /\ UNCHANGED <<audit_vars, split_vars, class_vars, selector_vars, thread_vars, standalone_tree, standalone_commitment, leaves, cloud_tree, cloud_commitment, path_call, path_result,
                   prover_call, prover_result, proof_dict, tampered,
                   verifier_call, verdict>>

\* CloudDataIngestionPipeline.create_merkle_commitment on the same block hashes
CloudCreateMerkleCommitment ==
    /\ pc = "split"
    /\ cloud_tree' = Cloud_build_tree(leaves)
    /\ cloud_commitment' = Cloud_create_merkle_commitment(leaves)
    /\ pc' = "cloud_committed"
    /\ UNCHANGED <<audit_vars, split_vars, class_vars, selector_vars, thread_vars, standalone_tree, standalone_commitment, leaves, tree, commitment, path_call, path_result,
                   prover_call, prover_result, proof_dict, tampered,
                   verifier_call, verdict>>

\* standalone_audit.create_merkle_commitment on the same block hashes
StandaloneCreateMerkleCommitment ==
    /\ pc = "split"
    /\ standalone_tree' = Standalone_build_tree(leaves)
    /\ standalone_commitment' = Standalone_create_merkle_commitment(leaves)
    /\ pc' = "standalone_committed"
    /\ UNCHANGED <<audit_vars, split_vars, class_vars, selector_vars, thread_vars, leaves, tree, commitment, cloud_tree, cloud_commitment,
                   path_call, path_result, prover_call, prover_result, proof_dict,
                   tampered, verifier_call, verdict>>

\* block indices of the commitment (Python numbering), once it is written
BlockIndices ==
    IF pc \in {"split", "cloud_committed", "standalone_committed"} THEN {}
    ELSE 0..(Len(leaves) - 1)

Block(b) == commitment.block_metadata[b + 1]

\* xs with entry j (Python numbering) replaced by v
ReplaceAt(xs, j, v) == [xs EXCEPT ![j + 1] = v]

\* a block hash as the auditor may recompute it: the committed one, the one of
\* a changed block, or the one of another block of the dataset
RecomputedHashes(b) == {Block(b).hash, TamperedHash, Block((b + 1) % Len(leaves)).hash}

\* an authentication path as it may be read back: the committed one, or one
\* with a single sibling replaced by a different digest
ReadPaths(b) ==
    {Block(b).authentication_path} \cup
    {ReplaceAt(Block(b).authentication_path, j, TamperedHash) :
        j \in 0..(Len(Block(b).authentication_path) - 1)}

\* verify_blocks.py main / simple_tamper_test / test_scenario_3: one call of
\* verify_merkle_path against the committed root
VerifyBlock(b, leaf_hash, auth_path) ==
    /\ pc = "committed"
    /\ path_call' = [made |-> TRUE, leaf_hash |-> leaf_hash, leaf_index |-> b,
                     auth_path |-> auth_path, expected_root |-> RootOf(commitment)]
    /\ path_result' = PyBool(verify_merkle_path(leaf_hash, b, auth_path, RootOf(commitment)))
    /\ pc' = "path_checked"
    /\ UNCHANGED <<audit_vars, split_vars, class_vars, selector_vars, thread_vars, standalone_tree, standalone_commitment, leaves, tree, commitment, cloud_tree, cloud_commitment, prover_call, prover_result,
                   proof_dict, tampered, verifier_call, verdict>>

\* stark_prove.py main: one call of generate_proof for block b; the proof is
\* written to the proof file only when generate_proof returns
StarkProve(b, leaf_hash, auth_path) ==
    /\ pc = "committed"
    /\ LET result == generate_proof(leaf_hash, auth_path, b, RootOf(commitment))
       IN /\ prover_call' = [made |-> TRUE, leaf_hash |-> leaf_hash, leaf_index |-> b,
                             auth_path |-> auth_path,
                             expected_root |-> RootOf(commitment)]
          /\ prover_result' = result
          /\ IF result.returned
             THEN proof_dict' = result.proof /\ pc' = "proved"
             ELSE proof_dict' = proof_dict /\ pc' = "prove_failed"
    /\ UNCHANGED <<audit_vars, split_vars, class_vars, selector_vars, thread_vars, standalone_tree, standalone_commitment, leaves, tree, commitment, cloud_tree, cloud_commitment, path_call, path_result,
                   tampered, verifier_call, verdict>>

\* constraints with every satisfied flag set
AllSatisfied(constraints) ==
    [c \in 1..Len(constraints) |-> [constraints[c] EXCEPT !.satisfied = TRUE]]

\* stark_verify.py main loads whatever the proof file holds: here a file
\* written without generate_proof's checks, holding the replay of leaf_hash
\* along block b's committed path, with the constraint flags as computed or all set
LoadForeignProof(b, leaf_hash, flags_set) ==
    /\ pc = "committed"
    /\ LET auth_path == Block(b).authentication_path
           trace == generate_execution_trace(leaf_hash, auth_path, b)
           constraints == generate_constraints(trace)
       IN proof_dict' = MakeProof(leaf_hash, auth_path, RootOf(commitment), b, trace,
                                  IF flags_set THEN AllSatisfied(constraints)
                                  ELSE constraints)
    /\ pc' = "proved"
    /\ UNCHANGED <<audit_vars, split_vars, class_vars, selector_vars, thread_vars, standalone_tree, standalone_commitment, leaves, tree, commitment, cloud_tree, cloud_commitment, path_call, path_result, prover_call,
                   prover_result, tampered, verifier_call, verdict>>

CanTamper == pc = "proved" /\ ~tampered

Tampered(pd) ==
    /\ proof_dict' = pd
    /\ tampered' = TRUE
    /\ UNCHANGED <<audit_vars, split_vars, class_vars, selector_vars, thread_vars, standalone_tree, standalone_commitment, leaves, tree, commitment, cloud_tree, cloud_commitment, pc, path_call, path_result, prover_call,
                   prover_result, verifier_call, verdict>>

\* the proof file is a pickle outside the verifier's control: one top-level
\* field is replaced by another value of the same type
TamperAuthPath ==
    /\ CanTamper
    /\ \E j \in 0..(Len(proof_dict.auth_path) - 1) :
          /\ proof_dict.auth_path[j + 1] # TamperedHash
          /\ Tampered([proof_dict EXCEPT !.auth_path[j + 1] = TamperedHash])

TamperLeafHash ==
    /\ CanTamper
    /\ \E v \in RecomputedHashes(proof_dict.leaf_index) \ {proof_dict.leaf_hash} :
          Tampered([proof_dict EXCEPT !.leaf_hash = v])

TamperRootHash ==
    /\ CanTamper
    /\ \E v \in {TamperedHash, FinalHash(proof_dict.proof_data.execution_trace,
                                         proof_dict.leaf_hash)} \ {proof_dict.root_hash} :
          Tampered([proof_dict EXCEPT !.root_hash = v])

\* one field of one step of the stored execution trace is replaced
TamperTraceHash ==
    /\ CanTamper
    /\ \E k \in 1..Len(proof_dict.proof_data.execution_trace),
          field \in {"current_hash", "sibling_hash", "parent_hash", "parent_input"} :
          /\ k = 1 => field = "current_hash"
          /\ proof_dict.proof_data.execution_trace[k][field] # TamperedHash
          /\ Tampered([proof_dict EXCEPT
                          !.proof_data.execution_trace[k][field] = TamperedHash])

TamperTraceIndex ==
    /\ CanTamper
    /\ \E k \in 1..Len(proof_dict.proof_data.execution_trace) :
          LET old == proof_dict.proof_data.execution_trace[k].current_index
          IN \E v \in {old \div 2, old + 1} \ {old} :
                Tampered([proof_dict EXCEPT
                             !.proof_data.execution_trace[k].current_index = v])

TamperTraceSide ==
    /\ CanTamper
    /\ \E k \in 2..Len(proof_dict.proof_data.execution_trace) :
          LET old == proof_dict.proof_data.execution_trace[k].is_left_child
          IN Tampered([proof_dict EXCEPT
                          !.proof_data.execution_trace[k].is_left_child =
                              PyBool(~Truthy(old))])

TamperTraceOperation ==
    /\ CanTamper
    /\ Tampered([proof_dict EXCEPT
                    !.proof_data.execution_trace[1].operation = "hash_combine"])

\* a step after step 0 is given what step 0 holds in that field: None for
\* sibling_hash, no parent_input at all
TamperTraceType ==
    /\ CanTamper
    /\ \E k \in 2..Len(proof_dict.proof_data.execution_trace) :
          \/ Tampered([proof_dict EXCEPT
                          !.proof_data.execution_trace[k].sibling_hash = None])
          \/ Tampered([proof_dict EXCEPT
                          !.proof_data.execution_trace[k].parent_input = Missing])

\* the last sibling of the stored authentication path is dropped
TruncateAuthPath ==
    /\ CanTamper
    /\ Len(proof_dict.auth_path) > 0
    /\ Tampered([proof_dict EXCEPT
                    !.auth_path = SubSeq(proof_dict.auth_path, 1,
                                         Len(proof_dict.auth_path) - 1)])

\* the last step of the stored trace is dropped
TruncateTrace ==
    /\ CanTamper
    /\ Len(proof_dict.proof_data.execution_trace) > 1
    /\ LET trace == proof_dict.proof_data.execution_trace
       IN Tampered([proof_dict EXCEPT
                      !.proof_data.execution_trace = SubSeq(trace, 1, Len(trace) - 1)])

\* one stored constraint flag is flipped
TamperConstraint ==
    /\ CanTamper
    /\ \E c \in 1..Len(proof_dict.proof_data.constraints) :
          Tampered([proof_dict EXCEPT
                       !.proof_data.constraints[c].satisfied =
                           ~proof_dict.proof_data.constraints[c].satisfied])

\* protocol metadata below the verifier's minimums
TamperNumQueries ==
    /\ CanTamper
    /\ Tampered([proof_dict EXCEPT !.proof_data.num_queries = MinNumQueries - 1])

TamperBlowupFactor ==
    /\ CanTamper
    /\ Tampered([proof_dict EXCEPT !.proof_data.blowup_factor = MinBlowupFactor - 1])

TamperCommitments ==
    /\ CanTamper
    /\ \/ Tampered([proof_dict EXCEPT
                      !.proof_data.merkle_root_commitments = <<DigestLen, DigestLen>>])
       \/ Tampered([proof_dict EXCEPT
                      !.proof_data.merkle_root_commitments[1] = DigestLen - 1])

\* --block-index of stark_verify.py: its default 0, or the block the loaded
\* proof names
VerifiedBlocks == IF pc = "proved" THEN {0, proof_dict.leaf_index} ELSE {}

\* stark_verify.py main: verify_proof on the loaded proof against block b's
\* committed hash, the committed root and the committed path length
StarkVerify(b) ==
    /\ pc = "proved"
    /\ verifier_call' = [made |-> TRUE, block_index |-> b,
                         expected_leaf |-> Block(b).hash,
                         expected_root |-> RootOf(commitment),
                         expected_path_length |-> Len(Block(b).authentication_path)]
    /\ verdict' = verify_proof(proof_dict, Block(b).hash, RootOf(commitment),
                               Len(Block(b).authentication_path))
    /\ pc' = IF "raised" \in DOMAIN verdict' THEN "verify_raised" ELSE "verified"
    /\ UNCHANGED <<audit_vars, split_vars, class_vars, selector_vars, thread_vars, standalone_tree, standalone_commitment, leaves, tree, commitment, cloud_tree, cloud_commitment, path_call, path_result, prover_call,
                   prover_result, proof_dict, tampered>>

Next ==
    \/ CreateMerkleCommitment
    \/ CloudCreateMerkleCommitment
    \/ StandaloneCreateMerkleCommitment
    \/ \E b \in BlockIndices :
          \E leaf_hash \in RecomputedHashes(b), auth_path \in ReadPaths(b) :
             VerifyBlock(b, leaf_hash, auth_path)
    \/ \E b \in BlockIndices :
          \E leaf_hash \in RecomputedHashes(b), auth_path \in ReadPaths(b) :
             StarkProve(b, leaf_hash, auth_path)
    \/ \E b \in BlockIndices :
          \E leaf_hash \in RecomputedHashes(b), flags_set \in BOOLEAN :
             LoadForeignProof(b, leaf_hash, flags_set)
    \/ TamperAuthPath
    \/ TamperLeafHash
    \/ TamperRootHash
    \/ TamperTraceHash
    \/ TamperTraceIndex
    \/ TamperTraceSide
    \/ TamperTraceOperation
    \/ TamperTraceType
    \/ TruncateAuthPath
    \/ TruncateTrace
    \/ TamperConstraint
    \/ TamperNumQueries
    \/ TamperBlowupFactor
    \/ TamperCommitments
    \/ \E b \in VerifiedBlocks : StarkVerify(b)

Spec == Init /\ [][Next]_vars

---------------------------------------------------------------------------
(* The three tree classes instantiated on the same leaves *)

\* leaf lists of any positive length: all leaves distinct, or all the same
ClassLeafLists ==
    UNION {{BlockHashList(n, data) : data \in {0, n}} : n \in 1..MaxLeaves}

ClassInit ==
    /\ class_leaves \in ClassLeafLists
    /\ ClassesIdle
    /\ leaves = <<>>
    /\ PipelineIdle
    /\ hash_model = [period |-> 1, stride |-> 1, spread |-> 1]
    /\ SelectorIdle
    /\ ThreadsIdle
    /\ AuditsIdle
    /\ SplitIdle

Built(object) == object # NotBuilt

\* MerkleTree(leaves)
NewMerkleTree ==
    /\ ~Built(merkle_tree)
    /\ merkle_tree' = MerkleTree(class_leaves)
    /\ UNCHANGED <<audit_vars, split_vars, pipeline_vars, selector_vars, thread_vars, class_leaves, cloud_merkle_tree, standalone_merkle_tree,
                   auth_call, auth_result>>

\* CloudMerkleTree(leaves)
NewCloudMerkleTree ==
    /\ ~Built(cloud_merkle_tree)
    /\ cloud_merkle_tree' = CloudMerkleTree(class_leaves)
    /\ UNCHANGED <<audit_vars, split_vars, pipeline_vars, selector_vars, thread_vars, class_leaves, merkle_tree, standalone_merkle_tree,
                   auth_call, auth_result>>

\* StandaloneMerkleTree(leaves)
NewStandaloneMerkleTree ==
    /\ ~Built(standalone_merkle_tree)
    /\ standalone_merkle_tree' = StandaloneMerkleTree(class_leaves)
    /\ UNCHANGED <<audit_vars, split_vars, pipeline_vars, selector_vars, thread_vars, class_leaves, merkle_tree, cloud_merkle_tree,
                   auth_call, auth_result>>

\* the value a method returned
Returned(value) == [raised |-> FALSE, value |-> value]

\* leaf_index arguments: every leaf, and the two indices past the last leaf
LeafIndexArgs == 0..(Len(class_leaves) + 1)

\* merkle_tree.get_authentication_path_hashes(leaf_index)
MerkleTreeGetPath(leaf_index) ==
    /\ Built(merkle_tree)
    /\ ~merkle_tree.raised
    /\ auth_call' = [made |-> TRUE, class |-> "MerkleTree", leaf_index |-> leaf_index]
    /\ auth_result' = Returned(get_authentication_path_hashes(
                                   merkle_tree.tree, merkle_tree.leaf_count, leaf_index))
    /\ UNCHANGED <<audit_vars, split_vars, pipeline_vars, selector_vars, thread_vars, class_leaves, merkle_tree, cloud_merkle_tree,
                   standalone_merkle_tree>>

\* cloud_merkle_tree.get_authentication_path(leaf_index)
CloudMerkleTreeGetPath(leaf_index) ==
    /\ Built(cloud_merkle_tree)
    /\ ~cloud_merkle_tree.raised
    /\ auth_call' = [made |-> TRUE, class |-> "CloudMerkleTree", leaf_index |-> leaf_index]
    /\ auth_result' = Returned(Cloud_get_authentication_path(
                                   cloud_merkle_tree.tree, cloud_merkle_tree.leaf_count,
                                   leaf_index))
    /\ UNCHANGED <<audit_vars, split_vars, pipeline_vars, selector_vars, thread_vars, class_leaves, merkle_tree, cloud_merkle_tree,
                   standalone_merkle_tree>>

\* standalone_merkle_tree.get_authentication_path(leaf_index)
StandaloneMerkleTreeGetPath(leaf_index) ==
    /\ Built(standalone_merkle_tree)
    /\ ~standalone_merkle_tree.raised
    /\ auth_call' = [made |-> TRUE, class |-> "StandaloneMerkleTree",
                     leaf_index |-> leaf_index]
    /\ auth_result' = Returned(Standalone_get_authentication_path(
                                   standalone_merkle_tree.tree,
                                   standalone_merkle_tree.leaf_count, leaf_index))
    /\ UNCHANGED <<audit_vars, split_vars, pipeline_vars, selector_vars, thread_vars, class_leaves, merkle_tree, cloud_merkle_tree,
                   standalone_merkle_tree>>

ClassNext ==
    \/ NewMerkleTree
    \/ NewCloudMerkleTree
    \/ NewStandaloneMerkleTree
    \/ \E leaf_index \in LeafIndexArgs : MerkleTreeGetPath(leaf_index)
    \/ \E leaf_index \in LeafIndexArgs : CloudMerkleTreeGetPath(leaf_index)
    \/ \E leaf_index \in LeafIndexArgs : StandaloneMerkleTreeGetPath(leaf_index)

ClassSpec == ClassInit /\ [][ClassNext]_vars

---------------------------------------------------------------------------
(* random_block_selector.py *)

(* Probabilities are counted in per cent: 95 stands for 0.95, 5 for 0.05;  *)
(* as floats they are PerCent(95), PerCent(5), or Tiny.  An optional       *)
(* argument is <<>> for None and <<v>> for the value v.                    *)

\* fixed-point one: x stands for x / FixedOne
FixedOne == 10000000

\* the sampler's defaults
DefaultConfidenceLevel == 95
DefaultMinCorruptionRate == 5

\* datasets below this size get a floor on the sample size
SmallDatasetLimit == 10
MinMeaningfulSample == 3

\* the loop gives up after this many draws per block
SafetyFactor == 10

\* The floats that hold a confidence or a corruption rate: a whole number of per
\* cent, or a positive value below 2^-54 (1e-17, say), which float subtraction
\* from 1.0 rounds away
PerCent(n) == [per_cent |-> n]
Tiny == [tiny |-> TRUE]

\* value <= 0
AtMostZero(value) == IF value = Tiny THEN FALSE ELSE value.per_cent <= 0

\* value >= 1
AtLeastOne(value) == IF value = Tiny THEN FALSE ELSE value.per_cent >= 100

\* 1 - value, in per cent: 1 - Tiny is 1.0
OneMinus(value) == IF value = Tiny THEN 100 ELSE 100 - value.per_cent

\* least n >= 1 with x * (q/100)^n <= bound, x and bound in fixed point
RECURSIVE PowersUntilBelow(_, _, _, _)
PowersUntilBelow(x, q, bound, n) ==
    IF (x * q) \div 100 <= bound THEN n + 1
    ELSE PowersUntilBelow((x * q) \div 100, q, bound, n + 1)

\* greatest n >= 0 with x * (q/100)^n >= FixedOne
RECURSIVE PowersWhileAbove(_, _, _)
PowersWhileAbove(x, q, n) ==
    IF (x * q) \div 100 < FixedOne THEN n
    ELSE PowersWhileAbove((x * q) \div 100, q, n + 1)

\* math.ceil(math.log(fail_prob) / math.log(keep_prob)) for fail_prob > 0 and
\* keep_prob = 1 - corruption_rate in (0,1), both in per cent.  Both logarithms
\* are negative for fail_prob < 1, so the quotient is the least n with
\* (1 - rate)^n <= fail_prob;
\* for fail_prob = 1 it is ceil(-0.0) = 0; for fail_prob > 1 the quotient is
\* negative and its ceiling is minus the greatest n with
\* fail_prob * (1 - rate)^n >= 1
CeilLogRatio(fail_prob, keep_prob) ==
    IF fail_prob < 100
    THEN PowersUntilBelow(FixedOne, keep_prob, (fail_prob * FixedOne) \div 100, 0)
    ELSE IF fail_prob = 100 THEN 0
    ELSE 0 - PowersWhileAbove((fail_prob * FixedOne) \div 100, keep_prob, 0)

Min(a, b) == IF a <= b THEN a ELSE b
Max(a, b) == IF a >= b THEN a ELSE b

\* RandomBlockSelector.__init__
RandomBlockSelector(confidence_level, min_corruption_rate) ==
    [confidence_level |-> confidence_level,
     min_corruption_rate |-> min_corruption_rate,
     random_seed |-> None]

\* RandomBlockSelector.calculate_sample_size
calculate_sample_size(self, total_blocks, corruption_rate_arg) ==
    LET corruption_rate == IF corruption_rate_arg = <<>> THEN self.min_corruption_rate
                           ELSE corruption_rate_arg[1]
        fail_prob == OneMinus(self.confidence_level)
        keep_prob == OneMinus(corruption_rate)
        min_sample_size == CeilLogRatio(fail_prob, keep_prob)
        sample_size == Min(min_sample_size, total_blocks)
    IN IF AtMostZero(corruption_rate) \/ AtLeastOne(corruption_rate)
       THEN Raised("ValueError: Corruption rate must be between 0 and 1")
       ELSE IF total_blocks <= 0
       THEN Raised("ValueError: Total blocks must be positive")
       ELSE IF fail_prob <= 0
       THEN Raised("ValueError: math domain error")
       ELSE IF keep_prob = 100
       THEN Raised("ZeroDivisionError: float division by zero")
       ELSE IF total_blocks < SmallDatasetLimit
       THEN Returned(Max(sample_size, Min(MinMeaningfulSample, total_blocks)))
       ELSE Returned(sample_size)

\* SHA-256 digest of a string, collision-free
sha256(data) == "[" \o data \o "]"

\* f"{user_id}|{upload_id}|{audit_timestamp}"
seed_data(user_id, upload_id, audit_timestamp) ==
    user_id \o "|" \o upload_id \o "|" \o audit_timestamp

\* variant: a seed the selector already holds is used again
generate_cryptographic_seed_once(self, user_id, upload_id, audit_timestamp) ==
    LET seed == IF self.random_seed # None THEN self.random_seed
                ELSE sha256(seed_data(user_id, upload_id, audit_timestamp))
    IN [self |-> [self EXCEPT !.random_seed = seed], seed |-> seed]

\* RandomBlockSelector.generate_cryptographic_seed: the seed is returned and
\* kept in self.random_seed
generate_cryptographic_seed(self, user_id, upload_id, audit_timestamp) ==
    LET seed == sha256(seed_data(user_id, upload_id, audit_timestamp))
    IN [self |-> [self EXCEPT !.random_seed = seed], seed |-> seed]

\* identities and timestamps of the audits
UserIds == <<"u", "v">>
UploadIds == <<"p">>
AuditTimestamps == <<"1">>

\* user and upload identifiers of the audits that run at the same time: some
\* hold the character that separates the parts of the seed data
SharedUserIds == <<"u", "u|p">>
SharedUploadIds == <<"p", "p|p">>

\* the seeds of the audits of user_ids x upload_ids x AuditTimestamps
SeedsOf(user_ids, upload_ids) ==
    [i \in 1..(Len(user_ids) * Len(upload_ids) * Len(AuditTimestamps)) |->
        sha256(seed_data(
            user_ids[((i - 1) \div (Len(upload_ids) * Len(AuditTimestamps))) + 1],
            upload_ids[(((i - 1) \div Len(AuditTimestamps)) % Len(upload_ids)) + 1],
            AuditTimestamps[((i - 1) % Len(AuditTimestamps)) + 1]))]

\* every seed an audit can have, in a fixed order
AllSeeds == SeedsOf(UserIds, UploadIds) \o SeedsOf(SharedUserIds, SharedUploadIds)

SeedRank(seed) == CHOOSE i \in 1..Len(AllSeeds) : AllSeeds[i] = seed

\* int.from_bytes(sha256(seed + counter.to_bytes(4, 'big')).digest()[:4], 'big')
sha256_first4(seed, counter) ==
    hash_model.spread * SeedRank(seed) + hash_model.stride * (counter % hash_model.period)

\* variant: the draws are numbered from the sample size on
loop_body_from_sample_size(run) ==
    LET random_int == sha256_first4(run.seed, run.counter + run.sample_size)
        block_index == random_int % run.total_blocks
    IN [run EXCEPT !.selected_indices = @ \cup {block_index},
                   !.counter = @ + 1]

\* lines 130-141: one pass of the body of the while loop of
\* select_random_blocks, on its locals
loop_body(run) ==
    LET random_int == sha256_first4(run.seed, run.counter)
        block_index == random_int % run.total_blocks
    IN [run EXCEPT !.selected_indices = @ \cup {block_index},
                   !.counter = @ + 1]

\* lines 129-145: the while loop of select_random_blocks from the locals run to
\* the locals it is left with
RECURSIVE select_loop(_)
select_loop(run) ==
    IF Cardinality(run.selected_indices) < run.sample_size
    THEN LET next == loop_body(run)
         IN IF next.counter > next.total_blocks * SafetyFactor THEN next
            ELSE select_loop(next)
    ELSE run

\* variant: the greatest index comes first
RECURSIVE sorted_descending(_)
sorted_descending(indices) ==
    IF indices = {} THEN <<>>
    ELSE LET greatest == CHOOSE m \in indices : \A other \in indices : m >= other
         IN <<greatest>> \o sorted_descending(indices \ {greatest})

\* sorted(list(indices))
RECURSIVE sorted(_)
sorted(indices) ==
    IF indices = {} THEN <<>>
    ELSE LET least == CHOOSE m \in indices : \A other \in indices : m <= other
         IN <<least>> \o sorted(indices \ {least})

\* bytes.hex()
hex(bytes) == "0x" \o bytes

\* variant: the plan records the default confidence level as its target
audit_plan_default_target(self, call, selected_blocks) ==
    [timestamp |-> call.audit_timestamp,
     user_id |-> call.user_id,
     upload_id |-> call.upload_id,
     total_blocks |-> call.total_blocks,
     selected_blocks |-> selected_blocks,
     sample_size |-> Len(selected_blocks),
     target_confidence |-> PerCent(DefaultConfidenceLevel),
     min_corruption_rate |-> self.min_corruption_rate,
     cryptographic_seed |-> IF self.random_seed # None THEN hex(self.random_seed)
                            ELSE None]

\* the plan generate_audit_plan builds from the list select_random_blocks
\* returned.  Its other entries are constant strings, formatted copies of the
\* entries kept here, and the confidence table computed from sample_size
audit_plan(self, call, selected_blocks) ==
    [timestamp |-> call.audit_timestamp,
     user_id |-> call.user_id,
     upload_id |-> call.upload_id,
     total_blocks |-> call.total_blocks,
     selected_blocks |-> selected_blocks,
     sample_size |-> Len(selected_blocks),
     target_confidence |-> self.confidence_level,
     min_corruption_rate |-> self.min_corruption_rate,
     cryptographic_seed |-> IF self.random_seed # None THEN hex(self.random_seed)
                            ELSE None]

---------------------------------------------------------------------------
(* The sampler: one selector, any sequence of calls on it; the selection   *)
(* loop runs one pass at a time                                            *)

\* confidence levels and corruption rates, valid ones and ones outside (0,1)
ConfidenceLevels ==
    {PerCent(n) : n \in {-50, 0, 50, DefaultConfidenceLevel, 100}} \cup {Tiny}
CorruptionRates ==
    {PerCent(n) : n \in {0, DefaultMinCorruptionRate, 50, 100}} \cup {Tiny}

\* the dataset size of the sampler's worked example
ExampleTotalBlocks == 16

\* total_blocks arguments
TotalBlocksArgs ==
    (-1..MaxSmallBlocks) \cup {SmallDatasetLimit - 1, SmallDatasetLimit, ExampleTotalBlocks}

\* corruption_rate arguments: None, or a rate
CorruptionRateArgs == {<<>>, <<PerCent(50)>>}

Elements(xs) == {xs[i] : i \in 1..Len(xs)}

SelectorInit ==
    /\ hash_model \in Sha256Models
    /\ SelectorIdle
    /\ leaves = <<>>
    /\ PipelineIdle
    /\ class_leaves = <<>>
    /\ ClassesIdle
    /\ ThreadsIdle
    /\ AuditsIdle
    /\ SplitIdle

\* selector = RandomBlockSelector(confidence_level, min_corruption_rate)
NewRandomBlockSelector(confidence_level, min_corruption_rate) ==
    /\ selector = NoSelector
    /\ selector' = RandomBlockSelector(confidence_level, min_corruption_rate)
    /\ UNCHANGED <<audit_vars, split_vars, pipeline_vars, class_vars, thread_vars, hash_model, selector_call, selector_result,
                   selection_run>>

\* the selector exists and no call on it is in progress
CanCall == selector # NoSelector /\ ~selection_run.in_loop

\* selector.calculate_sample_size(total_blocks, corruption_rate)
CalculateSampleSize(total_blocks, corruption_rate) ==
    /\ CanCall
    /\ selector_call' = [made |-> TRUE, method |-> "calculate_sample_size",
                         total_blocks |-> total_blocks,
                         corruption_rate |-> corruption_rate]
    /\ LET size == calculate_sample_size(selector, total_blocks, corruption_rate)
       IN selector_result' = IF size.raised THEN size ELSE Returned(PyInt(size.value))
    /\ selection_run' = NoRun
    /\ UNCHANGED <<audit_vars, split_vars, pipeline_vars, class_vars, thread_vars, hash_model, selector>>

\* selector.generate_cryptographic_seed(user_id, upload_id, audit_timestamp)
GenerateCryptographicSeed(user_id, upload_id, audit_timestamp) ==
    /\ CanCall
    /\ LET seeded == generate_cryptographic_seed(selector, user_id, upload_id,
                                                 audit_timestamp)
       IN /\ selector' = seeded.self
          /\ selector_result' = Returned(PyStr(seeded.seed))
    /\ selector_call' = [made |-> TRUE, method |-> "generate_cryptographic_seed",
                         user_id |-> user_id, upload_id |-> upload_id,
                         audit_timestamp |-> audit_timestamp]
    /\ selection_run' = NoRun
    /\ UNCHANGED <<audit_vars, split_vars, pipeline_vars, class_vars, thread_vars, hash_model>>

\* lines 116-128 of select_random_blocks: the sample size is computed, the seed
\* is generated and kept in the selector, and the loop is entered with an empty
\* set; nothing else happens when calculate_sample_size raises
EnterSelection(call) ==
    LET size == calculate_sample_size(selector, call.total_blocks, call.corruption_rate)
        seeded == generate_cryptographic_seed(selector, call.user_id, call.upload_id,
                                              call.audit_timestamp)
    IN /\ selector_call' = call
       /\ IF size.raised
          THEN /\ selector_result' = size
               /\ selection_run' = NoRun
               /\ selector' = selector
          ELSE /\ selector_result' = NoResult
               /\ selection_run' = [in_loop |-> TRUE,
                                    total_blocks |-> call.total_blocks,
                                    sample_size |-> size.value,
                                    seed |-> seeded.seed,
                                    seed_on_entry |-> selector.random_seed,
                                    selected_indices |-> {},
                                    counter |-> 0]
               /\ selector' = seeded.self
       /\ UNCHANGED <<audit_vars, split_vars, pipeline_vars, class_vars, thread_vars, hash_model>>

\* selector.select_random_blocks(total_blocks, user_id, upload_id,
\*                               corruption_rate, audit_timestamp) is called
SelectRandomBlocks(total_blocks, user_id, upload_id, corruption_rate, audit_timestamp) ==
    /\ CanCall
    /\ EnterSelection([made |-> TRUE, method |-> "select_random_blocks",
                       total_blocks |-> total_blocks, user_id |-> user_id,
                       upload_id |-> upload_id, corruption_rate |-> corruption_rate,
                       audit_timestamp |-> audit_timestamp])

\* selector.generate_audit_plan(total_blocks, user_id, upload_id,
\* audit_timestamp=audit_timestamp) is called: it calls select_random_blocks
\* with corruption_rate=self.min_corruption_rate
GenerateAuditPlan(total_blocks, user_id, upload_id, audit_timestamp) ==
    /\ CanCall
    /\ EnterSelection([made |-> TRUE, method |-> "generate_audit_plan",
                       total_blocks |-> total_blocks, user_id |-> user_id,
                       upload_id |-> upload_id,
                       corruption_rate |-> <<selector.min_corruption_rate>>,
                       audit_timestamp |-> audit_timestamp])

\* line 147 and, in generate_audit_plan, lines 196-235: the loop is left with
\* the locals run, the sorted list is returned, and generate_audit_plan builds
\* its plan around it
LeaveSelection(run) ==
    /\ selection_run' = [run EXCEPT !.in_loop = FALSE]
    /\ selector_result' =
          IF selector_call.method = "generate_audit_plan"
          THEN Returned(audit_plan(selector, selector_call, sorted(run.selected_indices)))
          ELSE Returned(PyList(sorted(run.selected_indices)))
    /\ UNCHANGED <<audit_vars, split_vars, pipeline_vars, class_vars, thread_vars, hash_model, selector, selector_call>>

\* the loop test holds: one pass of the body; the loop is left through the
\* break when the counter has passed the safety bound
SelectionPass ==
    /\ selection_run.in_loop
    /\ Cardinality(selection_run.selected_indices) < selection_run.sample_size
    /\ LET run == loop_body(selection_run)
       IN IF run.counter > run.total_blocks * SafetyFactor
          THEN LeaveSelection(run)
          ELSE /\ selection_run' = run
               /\ UNCHANGED <<audit_vars, split_vars, pipeline_vars, class_vars, thread_vars, hash_model, selector,
                              selector_call, selector_result>>

\* the loop test fails: the loop is left
SelectionFull ==
    /\ selection_run.in_loop
    /\ ~(Cardinality(selection_run.selected_indices) < selection_run.sample_size)
    /\ LeaveSelection(selection_run)

SelectorNext ==
    \/ \E confidence_level \in ConfidenceLevels, min_corruption_rate \in CorruptionRates :
          NewRandomBlockSelector(confidence_level, min_corruption_rate)
    \/ \E total_blocks \in TotalBlocksArgs, corruption_rate \in CorruptionRateArgs :
          CalculateSampleSize(total_blocks, corruption_rate)
    \/ \E user_id \in Elements(UserIds), upload_id \in Elements(UploadIds),
          audit_timestamp \in Elements(AuditTimestamps) :
          GenerateCryptographicSeed(user_id, upload_id, audit_timestamp)
    \/ \E total_blocks \in TotalBlocksArgs, user_id \in Elements(UserIds),
          upload_id \in Elements(UploadIds), corruption_rate \in CorruptionRateArgs,
          audit_timestamp \in Elements(AuditTimestamps) :
          SelectRandomBlocks(total_blocks, user_id, upload_id, corruption_rate,
                             audit_timestamp)
    \/ \E total_blocks \in TotalBlocksArgs, user_id \in Elements(UserIds),
          upload_id \in Elements(UploadIds), audit_timestamp \in Elements(AuditTimestamps) :
          GenerateAuditPlan(total_blocks, user_id, upload_id, audit_timestamp)
    \/ SelectionPass
    \/ SelectionFull

SelectorSpec == SelectorInit /\ [][SelectorNext]_vars

---------------------------------------------------------------------------
(* The sampler shared by threads: each calls generate_audit_plan once on   *)
(* the one selector; a thread can be preempted wherever it does not hold   *)
(* the attribute it reads or writes in a local                             *)

ConcurrentInit ==
    /\ hash_model \in Sha256Models
    /\ selector = RandomBlockSelector(PerCent(DefaultConfidenceLevel),
                                      PerCent(DefaultMinCorruptionRate))
    /\ selector_call = NoCall
    /\ selector_result = NoResult
    /\ selection_run = NoRun
    /\ ThreadsIdle
    /\ AuditsIdle
    /\ SplitIdle
    /\ leaves = <<>>
    /\ PipelineIdle
    /\ class_leaves = <<>>
    /\ ClassesIdle

\* lines 183-193, 123 and 120: thread t calls generate_audit_plan, which calls
\* select_random_blocks; the sample size is computed from the configuration
\* and generate_cryptographic_seed stores the seed in self.random_seed (line 96)
PlanSeed(t, total_blocks, user_id, upload_id, audit_timestamp) ==
    /\ plan_threads[t].pc = "idle"
    /\ LET call == [made |-> TRUE, method |-> "generate_audit_plan",
                    total_blocks |-> total_blocks, user_id |-> user_id,
                    upload_id |-> upload_id,
                    corruption_rate |-> <<selector.min_corruption_rate>>,
                    audit_timestamp |-> audit_timestamp]
           size == calculate_sample_size(selector, total_blocks, call.corruption_rate)
           seeded == generate_cryptographic_seed(selector, user_id, upload_id,
                                                 audit_timestamp)
       IN IF size.raised
          THEN /\ plan_threads' = [plan_threads EXCEPT ![t] =
                                      [pc |-> "returned", call |-> call, result |-> size]]
               /\ selector' = selector
          ELSE /\ plan_threads' = [plan_threads EXCEPT ![t] =
                                      [pc |-> "seeded", call |-> call,
                                       run |-> [total_blocks |-> total_blocks,
                                                sample_size |-> size.value,
                                                seed |-> seeded.seed,
                                                selected_indices |-> {},
                                                counter |-> 0]]]
               /\ selector' = seeded.self
    /\ UNCHANGED <<audit_vars, split_vars, pipeline_vars, class_vars, hash_model, selector_call, selector_result,
                   selection_run>>

\* lines 124-147: thread t runs the loop on its locals and sorts the set
PlanSelect(t) ==
    /\ plan_threads[t].pc = "seeded"
    /\ plan_threads' = [plan_threads EXCEPT ![t] =
                           [pc |-> "selected", call |-> plan_threads[t].call,
                            run |-> select_loop(plan_threads[t].run)]]
    /\ UNCHANGED <<audit_vars, split_vars, pipeline_vars, class_vars, selector_vars>>

\* lines 196-235: thread t builds the plan, reading self.random_seed (line 222),
\* and returns it
PlanReturn(t) ==
    /\ plan_threads[t].pc = "selected"
    /\ plan_threads' = [plan_threads EXCEPT ![t] =
                           [pc |-> "returned", call |-> plan_threads[t].call,
                            run |-> plan_threads[t].run,
                            result |-> Returned(audit_plan(selector, plan_threads[t].call,
                                          sorted(plan_threads[t].run.selected_indices)))]]
    /\ UNCHANGED <<audit_vars, split_vars, pipeline_vars, class_vars, selector_vars>>

\* total_blocks of the plans generated at the same time
SharedTotalBlocks == {0, MaxSmallBlocks}

ConcurrentNext ==
    \/ \E t \in Threads, total_blocks \in SharedTotalBlocks,
          user_id \in Elements(SharedUserIds), upload_id \in Elements(SharedUploadIds),
          audit_timestamp \in Elements(AuditTimestamps) :
          PlanSeed(t, total_blocks, user_id, upload_id, audit_timestamp)
    \/ \E t \in Threads : PlanSelect(t)
    \/ \E t \in Threads : PlanReturn(t)

ConcurrentSpec == ConcurrentInit /\ [][ConcurrentNext]_vars

---------------------------------------------------------------------------
(* fastapi-server.py: the audits the server starts and the status polls *)

\* seconds a running audit is left alone before a poll completes it
CompletionDelay == 3
\* blocks shown when the output of the run held no block report
DisplayedBlocks == 5

\* a local variable that was never assigned
Unbound == "<unbound>"

\* what subprocess.run of the verification binary does: it times out, raises,
\* or exits with a return code and an output, of which the handler reads the
\* TAMPERING DETECTED marker and the PASSED / FAILED line of each block
TimedOut == [kind |-> "timeout"]
Failed == [kind |-> "exception"]
Exit(returncode, marker, reports) ==
    [kind |-> "exit", returncode |-> returncode,
     stdout |-> [marker |-> marker, reports |-> reports]]

\* one report per selected block, FAILED for the blocks of failed
Reports(selected_blocks, failed) ==
    [i \in 1..Len(selected_blocks) |->
        [blockIndex |-> selected_blocks[i],
         passed |-> selected_blocks[i] \notin failed]]

\* the outcomes of the run on the selected blocks: all blocks pass, exit 0
\* without a block report, tampering reported for the first or for every
\* block, exit 1 for another reason, exit 101
Runs(selected_blocks) ==
    {TimedOut, Failed,
     Exit(0, FALSE, Reports(selected_blocks, {})),
     Exit(0, FALSE, <<>>),
     Exit(1, FALSE, <<>>),
     Exit(101, FALSE, <<>>)}
    \cup {Exit(1, TRUE, Reports(selected_blocks, failed)) :
             failed \in {{selected_blocks[1]},
                         {selected_blocks[i] : i \in 1..Len(selected_blocks)}}}

\* the try statement of get_audit_status: its locals when it is left
verification_step(audit_info, dir_exists, run) ==
    IF ~dir_exists
    THEN [stark_success |-> FALSE, stark_output |-> None, tampering_detected |-> Unbound]
    ELSE IF ~uploads[audit_info.upload_id].stored
    THEN [stark_success |-> FALSE, stark_output |-> None, tampering_detected |-> Unbound]
    ELSE IF run.kind \in {"timeout", "exception"}
    THEN [stark_success |-> FALSE, stark_output |-> None, tampering_detected |-> Unbound]
    ELSE [stark_success |-> (run.returncode = 0),
          stark_output |-> run.stdout,
          tampering_detected |-> PyBool(run.returncode = 1 /\ run.stdout.marker)]

\* the loop over the output lines: one result per block report
parse_output(stdout) ==
    [verification_results |->
        [i \in 1..Len(stdout.reports) |->
            [blockIndex |-> stdout.reports[i].blockIndex,
             verificationPassed |-> stdout.reports[i].passed]],
     blocks_verified |->
        Cardinality({i \in 1..Len(stdout.reports) : stdout.reports[i].passed}),
     blocks_failed |->
        Cardinality({i \in 1..Len(stdout.reports) : ~stdout.reports[i].passed})]

NothingParsed == [verification_results |-> <<>>, blocks_verified |-> 0, blocks_failed |-> 0]

\* the results shown when nothing was parsed from a successful run
minimal_results(audit_info) ==
    [verification_results |->
        [i \in 1..Min(DisplayedBlocks, Len(audit_info.selected_blocks)) |->
            [blockIndex |-> audit_info.selected_blocks[i],
             verificationPassed |-> TRUE]],
     blocks_verified |-> Len(audit_info.selected_blocks),
     blocks_failed |-> 0]

\* dict.update: the keys of changes are set or added
update(dict, changes) ==
    [key \in DOMAIN dict \cup DOMAIN changes |->
        IF key \in DOMAIN changes THEN changes[key] ELSE dict[key]]

\* audit_info.update({...}) at the end of get_audit_status
completed(audit_info, stark_success, parsed) ==
    update(audit_info,
           [status |-> IF stark_success THEN "success" ELSE "failed",
            results |->
               [overallSuccess |-> stark_success,
                tamperingDetected |-> (parsed.blocks_failed > 0),
                verificationResults |-> parsed.verification_results,
                blocksAudited |-> parsed.blocks_verified + parsed.blocks_failed,
                blocksPassed |-> parsed.blocks_verified,
                blocksFailed |-> parsed.blocks_failed]])

\* the body of 'if elapsed > 3 and status == running' of get_audit_status:
\* the audit record it stores, or the exception that leaves it.
\* tampering_detected is assigned only after subprocess.run returned; the
\* tampering branch reads blocks_passed, which is no name of the function or
\* of the module
complete_audit(audit_info, dir_exists, run) ==
    LET step == verification_step(audit_info, dir_exists, run)
    IN IF step.tampering_detected = Unbound THEN Raised("UnboundLocalError")
       ELSE IF Truthy(step.tampering_detected) THEN Raised("NameError")
       ELSE LET parsed == IF step.stark_success /\ step.stark_output.reports # <<>>
                          THEN parse_output(step.stark_output)
                          ELSE NothingParsed
            IN Returned(completed(audit_info, step.stark_success,
                                  IF parsed.verification_results = <<>> /\ step.stark_success
                                  THEN minimal_results(audit_info)
                                  ELSE parsed))

AuditInit ==
    /\ AuditsIdle
    /\ leaves = <<>>
    /\ PipelineIdle
    /\ class_leaves = <<>>
    /\ ClassesIdle
    /\ hash_model = [period |-> 1, stride |-> 1, spread |-> 1]
    /\ SelectorIdle
    /\ ThreadsIdle
    /\ SplitIdle

\* upload_dataset: the record it stores under a new upload_id
UploadDataset(upload_id, total_blocks) ==
    /\ ~uploads[upload_id].stored
    /\ \A u \in 1..(upload_id - 1) : uploads[u].stored
    /\ uploads' = [uploads EXCEPT ![upload_id] =
                      [stored |-> TRUE, upload_id |-> upload_id,
                       total_blocks |-> total_blocks]]
    /\ response' = [handler |-> "upload_dataset", raised |-> None]
    /\ UNCHANGED <<pipeline_vars, class_vars, selector_vars, thread_vars, split_vars,
                   audits, now>>

\* start_audit: 404 for an unknown upload, else a record in status running
\* under a new audit_id, with the blocks the selection gave
StartAudit(upload_id, selected_blocks) ==
    /\ \E audit_id \in AuditIds :
          /\ ~audits[audit_id].started
          /\ \A a \in 1..(audit_id - 1) : audits[a].started
          /\ IF ~uploads[upload_id].stored
             THEN /\ audits' = audits
                  /\ response' = [handler |-> "start_audit", raised |-> "HTTPException",
                                  status_code |-> 404]
             ELSE /\ selected_blocks[Len(selected_blocks)] < uploads[upload_id].total_blocks
                  /\ audits' = [audits EXCEPT ![audit_id] =
                                   [started |-> TRUE,
                                    audit_id |-> audit_id,
                                    upload_id |-> upload_id,
                                    selected_blocks |-> selected_blocks,
                                    sample_size |-> Len(selected_blocks),
                                    status |-> "running",
                                    start_time |-> now]]
                  /\ response' = [handler |-> "start_audit", raised |-> None,
                                  audit_id |-> audit_id]
    /\ UNCHANGED <<pipeline_vars, class_vars, selector_vars, thread_vars, split_vars,
                   uploads, now>>

\* a second passes
Tick ==
    /\ now < MaxClock
    /\ now' = now + 1
    /\ UNCHANGED <<pipeline_vars, class_vars, selector_vars, thread_vars, split_vars,
                   uploads, audits, response>>

\* what the verification run of an audit may end in; no run is made for an
\* audit_id that is no key of audits
RunsOf(audit_id) ==
    IF audits[audit_id].started THEN Runs(audits[audit_id].selected_blocks)
    ELSE {TimedOut}

\* get_audit_status: 404 for an unknown audit; a running audit older than
\* three seconds is completed from the verification run; the record is returned
GetAuditStatus(audit_id, dir_exists, run) ==
    /\ run \in RunsOf(audit_id)
    /\ IF ~audits[audit_id].started
       THEN /\ audits' = audits
            /\ response' = [handler |-> "get_audit_status", audit_id |-> audit_id,
                            raised |-> "HTTPException", status_code |-> 404]
       ELSE LET audit_info == audits[audit_id]
                elapsed == now - audit_info.start_time
            IN IF elapsed > CompletionDelay /\ audit_info.status = "running"
               THEN LET outcome == complete_audit(audit_info, dir_exists, run)
                    IN /\ audits' = IF outcome.raised THEN audits
                                    ELSE [audits EXCEPT ![audit_id] = outcome.value]
                       /\ response' =
                             [handler |-> "get_audit_status", audit_id |-> audit_id,
                              completing |-> TRUE, dir_exists |-> dir_exists, run |-> run,
                              raised |-> IF outcome.raised THEN outcome.error ELSE None,
                              audit_data |-> IF outcome.raised THEN None
                                             ELSE outcome.value]
               ELSE /\ audits' = audits
                    /\ response' =
                          [handler |-> "get_audit_status", audit_id |-> audit_id,
                           completing |-> FALSE, raised |-> None,
                           audit_data |-> audit_info]
    /\ UNCHANGED <<pipeline_vars, class_vars, selector_vars, thread_vars, split_vars,
                   uploads, now>>

\* the lists of selected blocks start_audit may store for an upload: its
\* first block, its last block, or all its blocks
SelectedBlockLists(total_blocks) ==
    {<<0>>, <<total_blocks - 1>>, [i \in 1..total_blocks |-> i - 1]}

UploadBlockCounts == {1, MaxUploadBlocks}

AuditNext ==
    \/ \E upload_id \in StoredUploadIds, total_blocks \in UploadBlockCounts :
          UploadDataset(upload_id, total_blocks)
    \/ \E upload_id \in StoredUploadIds :
          \E selected_blocks \in SelectedBlockLists(MaxUploadBlocks) :
             StartAudit(upload_id, selected_blocks)
    \/ Tick
    \/ \E audit_id \in AuditIds, dir_exists \in BOOLEAN,
          run \in UNION {RunsOf(a) : a \in AuditIds} :
          GetAuditStatus(audit_id, dir_exists, run)

AuditSpec == AuditInit /\ [][AuditNext]_vars

---------------------------------------------------------------------------
(* split_into_size_based_blocks (generate_blocks_commitments.py) and         *)
(* CloudDataIngestionPipeline.split_into_blocks (cloud_data_ingestion.py).   *)
(* A CSV file is its header line and its rows, each of a size in bytes;      *)
(* sizes and the target block size are counted in bytes.                     *)

SplitFunctions == {"split_into_size_based_blocks", "split_into_blocks"}

\* rows of the sample the bytes per row are estimated from
SampleRows(function) ==
    IF function = "split_into_size_based_blocks" THEN 100 ELSE 1000

\* bytes of rows from + 1 .. to of the file (df.iloc[from:to] written as CSV,
\* without the header)
RECURSIVE RowBytes(_, _, _)
RowBytes(row_bytes, from, to) ==
    IF from >= to THEN 0 ELSE row_bytes[to] + RowBytes(row_bytes, from, to - 1)

\* os.path.getsize(input_file)
FileSize(header_bytes, row_bytes) ==
    header_bytes + RowBytes(row_bytes, 0, Len(row_bytes))

\* math.ceil(a / b)
CeilDiv(a, b) == (a + b - 1) \div b

\* math.ceil(math.log2(n))
CeilLog2(n) == CHOOSE k \in 0..n : Pow2(k) >= n /\ \A j \in 0..(k - 1) : Pow2(j) < n

\* variant: the estimate is rounded down to a power of two
RoundToPowerOfTwoDown(estimated_blocks) ==
    IF Pow2(CeilLog2(estimated_blocks)) = estimated_blocks THEN estimated_blocks
    ELSE Pow2(CeilLog2(estimated_blocks) - 1)

\* 2 ** math.ceil(math.log2(estimated_blocks))
RoundToPowerOfTwo(estimated_blocks) == Pow2(CeilLog2(estimated_blocks))

\* the locals of the split function when it enters its loop
SplitEntry(function, header_bytes, row_bytes, target_block_size_bytes) ==
    LET file_size == FileSize(header_bytes, row_bytes)
        estimated_blocks == CeilDiv(file_size, target_block_size_bytes)
    IN [pc |-> "loop",
        function |-> function,
        header_bytes |-> header_bytes,
        row_bytes |-> row_bytes,
        file_size |-> file_size,
        target_block_size_bytes |-> target_block_size_bytes,
        estimated_blocks |-> estimated_blocks,
        power_of_2_blocks |-> RoundToPowerOfTwo(estimated_blocks),
        total_rows |-> Len(row_bytes),
        block_metadata |-> <<>>,
        current_row |-> 0]

\* max(1, int(target_block_size_bytes / bytes_per_row)), where bytes_per_row
\* is the size of the sample written as CSV, header included, by its rows
target_rows(run, sample_size) ==
    Max(1, (run.target_block_size_bytes * sample_size)
              \div (run.header_bytes
                    + RowBytes(run.row_bytes, run.current_row,
                               run.current_row + sample_size)))

\* one pass of the for loop over range(power_of_2_blocks): the block written,
\* as the rows df.iloc[first_row:end_row] it holds
split_block(run) ==
    LET block_index == Len(run.block_metadata)
    IN IF run.current_row >= run.total_rows
       THEN [run EXCEPT
                !.block_metadata = Append(@, [block_index |-> block_index,
                                              first_row |-> run.current_row,
                                              end_row |-> run.current_row,
                                              row_count |-> 0,
                                              is_empty |-> TRUE])]
       ELSE LET sample_size == Min(SampleRows(run.function),
                                   run.total_rows - run.current_row)
                end_row == Min(run.current_row + target_rows(run, sample_size),
                               run.total_rows)
            IN [run EXCEPT
                   !.block_metadata = Append(@, [block_index |-> block_index,
                                                 first_row |-> run.current_row,
                                                 end_row |-> end_row,
                                                 row_count |-> end_row - run.current_row,
                                                 is_empty |-> (end_row = run.current_row)]),
                   !.current_row = end_row]

\* (total_blocks & (total_blocks - 1)) == 0
RECURSIVE IsPowerOfTwo(_)
IsPowerOfTwo(n) ==
    IF n = 0 THEN TRUE
    ELSE IF n = 1 THEN TRUE
    ELSE IF n % 2 = 1 THEN FALSE
    ELSE IsPowerOfTwo(n \div 2)

SplitInit ==
    /\ SplitIdle
    /\ AuditsIdle
    /\ leaves = <<>>
    /\ PipelineIdle
    /\ class_leaves = <<>>
    /\ ClassesIdle
    /\ hash_model = [period |-> 1, stride |-> 1, spread |-> 1]
    /\ SelectorIdle
    /\ ThreadsIdle

\* a split function is called on a file
SplitCall(function, header_bytes, row_bytes, target_block_size_bytes) ==
    /\ split_run.pc = "idle"
    /\ split_run' = SplitEntry(function, header_bytes, row_bytes, target_block_size_bytes)
    /\ split_result' = NoResult
    /\ UNCHANGED <<pipeline_vars, class_vars, selector_vars, thread_vars, audit_vars>>

\* one pass of its loop
SplitBlock ==
    /\ split_run.pc = "loop"
    /\ Len(split_run.block_metadata) < split_run.power_of_2_blocks
    /\ split_run' = split_block(split_run)
    /\ UNCHANGED <<pipeline_vars, class_vars, selector_vars, thread_vars, audit_vars,
                   split_result>>

\* the loop is left: return block_metadata, power_of_2_blocks
SplitReturn ==
    /\ split_run.pc = "loop"
    /\ Len(split_run.block_metadata) = split_run.power_of_2_blocks
    /\ split_run' = [split_run EXCEPT !.pc = "returned"]
    /\ split_result' = Returned([block_metadata |-> split_run.block_metadata,
                                 total_blocks |-> split_run.power_of_2_blocks])
    /\ UNCHANGED <<pipeline_vars, class_vars, selector_vars, thread_vars, audit_vars>>

\* create_merkle_commitment(block_metadata, output_dir, total_blocks, ...) on
\* what split_into_size_based_blocks returned: its two assertions
AssertBlockCount ==
    /\ split_run.pc = "returned"
    /\ split_run.function = "split_into_size_based_blocks"
    /\ split_run' = [split_run EXCEPT !.pc = "asserted"]
    /\ split_result' =
          IF Len(split_result.value.block_metadata) # split_result.value.total_blocks
          THEN Raised("AssertionError")
          ELSE IF ~IsPowerOfTwo(split_result.value.total_blocks)
          THEN Raised("AssertionError: Total blocks must be power of 2")
          ELSE split_result
    /\ UNCHANGED <<pipeline_vars, class_vars, selector_vars, thread_vars, audit_vars>>

\* sizes of the header line, of a row, and of the target block
HeaderSizes == {1, 2}
RowSizes == {1, 3}
TargetBlockSizes == 1..MaxTargetBytes

\* the rows of a file: up to MaxRows rows, each of one of the sizes
RowLists == UNION {[1..n -> RowSizes] : n \in 0..MaxRows}

SplitNext ==
    \/ \E function \in SplitFunctions, header_bytes \in HeaderSizes,
          row_bytes \in RowLists, target_block_size_bytes \in TargetBlockSizes :
          SplitCall(function, header_bytes, row_bytes, target_block_size_bytes)
    \/ SplitBlock
    \/ SplitReturn
    \/ AssertBlockCount

SplitSpec == SplitInit /\ [][SplitNext]_vars

---------------------------------------------------------------------------
(* Properties of the commitment, the path replay, the prover and the verifier *)

Committed == pc \notin {"split", "cloud_committed", "standalone_committed"}

\* the last generate_proof call was made with block leaf_index's committed
\* hash and committed authentication path
HonestProverCall ==
    /\ prover_call.made
    /\ prover_call.leaf_hash = Block(prover_call.leaf_index).hash
    /\ prover_call.auth_path = Block(prover_call.leaf_index).authentication_path

\* path is auth_path with exactly one sibling replaced by a different digest
OneSiblingReplaced(path, auth_path) ==
    /\ Len(path) = Len(auth_path)
    /\ Cardinality({j \in 1..Len(path) : path[j] # auth_path[j]}) = 1

\* C1: completeness of prove/verify: generate_proof on a block's committed
\* hash, committed authentication path, index and the committed root returns
\* a proof, and verify_proof accepts that proof against the same block.
C1_ProveVerifyComplete ==
    /\ HonestProverCall => prover_result.returned
    /\ (/\ pc = "verified"
        /\ HonestProverCall
        /\ ~tampered
        /\ verifier_call.block_index = prover_call.leaf_index)
       => verdict.accept

\* the fields of the proof that its execution trace has to replay
TraceReplaysProof(pd) ==
    LET trace == pd.proof_data.execution_trace
    IN /\ Len(trace) = Len(pd.auth_path) + 1
       /\ trace[1].current_hash = pd.leaf_hash
       /\ trace[1].current_index = pd.leaf_index
       /\ \A k \in 1..(Len(trace) - 1) :
             /\ trace[k + 1].current_hash =
                   (IF k = 1 THEN pd.leaf_hash ELSE trace[k].parent_hash)
             /\ trace[k + 1].sibling_hash = pd.auth_path[k]

\* C2: verify_proof accepts a proof only if its execution trace is the replay
\* of the proof's own leaf_hash, leaf_index and auth_path.
C2_AcceptedTraceIsReplay ==
    (pc = "verified" /\ verdict.accept) => TraceReplaysProof(proof_dict)

\* C3: generate_proof called with a leaf hash different from the committed one
\* and the committed path, index and root fails with the root-mismatch error,
\* for every leaf index.
C3_TamperedLeafRootMismatch ==
    (/\ prover_call.made
     /\ prover_call.leaf_hash # Block(prover_call.leaf_index).hash
     /\ prover_call.auth_path = Block(prover_call.leaf_index).authentication_path)
    => (~prover_result.returned /\ prover_result.raised = RootError)

\* C4: replacing one sibling of a valid authentication path never leads to
\* acceptance: generate_proof returns no proof on the changed path, and
\* verify_proof rejects a generated proof whose auth_path has one sibling replaced.
C4_ReplacedSiblingRejected ==
    /\ (/\ prover_call.made
        /\ prover_call.leaf_hash = Block(prover_call.leaf_index).hash
        /\ OneSiblingReplaced(prover_call.auth_path,
                              Block(prover_call.leaf_index).authentication_path))
       => ~prover_result.returned
    /\ (/\ pc = "verified"
        /\ HonestProverCall
        /\ prover_result.returned
        /\ OneSiblingReplaced(proof_dict.auth_path, prover_result.proof.auth_path)
        /\ proof_dict = [prover_result.proof EXCEPT !.auth_path = proof_dict.auth_path])
       => ~verdict.accept

\* the last verify_merkle_path call was made for a block with its committed path
PathCallOnCommittedPath ==
    /\ pc = "path_checked"
    /\ path_call.auth_path = Block(path_call.leaf_index).authentication_path
    /\ path_call.expected_root = RootOf(commitment)

\* C5: Merkle membership: verify_merkle_path on a block's committed hash, its
\* index, its committed authentication path and the committed root returns True.
C5_Membership ==
    (PathCallOnCommittedPath /\ path_call.leaf_hash = Block(path_call.leaf_index).hash)
    => path_result = "True"

C5_Witness ==
    /\ PathCallOnCommittedPath
    /\ path_call.leaf_hash = Block(path_call.leaf_index).hash
    /\ Len(leaves) = 4
    /\ path_call.leaf_index = 2
    /\ path_result = "True"

\* C6: tamper detection by path replay: verify_merkle_path on a leaf hash
\* different from the committed one, with the committed path and root,
\* returns False.
C6_TamperDetected ==
    (PathCallOnCommittedPath /\ path_call.leaf_hash # Block(path_call.leaf_index).hash)
    => path_result = "False"

C6_Witness ==
    /\ PathCallOnCommittedPath
    /\ path_call.leaf_hash = TamperedHash
    /\ Len(leaves) = 4
    /\ path_call.leaf_index = 3
    /\ path_result = "False"

\* the four comparisons of the trace check, for every step after step 0
TraceCheckPasses(trace) ==
    /\ Len(trace) >= 1
    /\ trace[1].operation = "initialize"
    /\ \A k \in 2..Len(trace) :
          LET input == IF trace[k].is_left_child = "True"
                       THEN trace[k].current_hash \o trace[k].sibling_hash
                       ELSE trace[k].sibling_hash \o trace[k].current_hash
          IN /\ trace[k].parent_input = input
             /\ trace[k].parent_hash = "(" \o input \o ")"
             /\ trace[k].current_index = trace[k - 1].current_index \div 2
             /\ trace[k].is_left_child = PyBool(trace[k - 1].current_index % 2 = 0)

\* C7: verify_proof accepts only if the proof's leaf hash is the expected leaf,
\* its path has the expected length, the trace check passes, every constraint
\* is satisfied, num_queries >= 16, blowup_factor >= 4, and the final hash of
\* the trace (the leaf hash for a one-step trace) is the expected root.
C7_AcceptOnlyIfAllStagesPass ==
    (pc = "verified" /\ verdict.accept) =>
        LET proof_data == proof_dict.proof_data
            trace == proof_data.execution_trace
        IN /\ proof_dict.leaf_hash = verifier_call.expected_leaf
           /\ Len(proof_dict.auth_path) = verifier_call.expected_path_length
           /\ TraceCheckPasses(trace)
           /\ \A c \in 1..Len(proof_data.constraints) : proof_data.constraints[c].satisfied
           /\ proof_data.num_queries >= 16
           /\ proof_data.blowup_factor >= 4
           /\ (IF Len(trace) = 1 THEN proof_dict.leaf_hash
               ELSE trace[Len(trace)].parent_hash) = verifier_call.expected_root

C7_Witness ==
    /\ pc = "verified"
    /\ verdict.accept
    /\ Len(leaves) = 4
    /\ Len(proof_dict.proof_data.execution_trace) = 3

\* the constraints generate_proof derives for the arguments of the last call
CallConstraints ==
    generate_constraints(generate_execution_trace(prover_call.leaf_hash,
                                                  prover_call.auth_path,
                                                  prover_call.leaf_index))

CallFinalHash ==
    path_loop(prover_call.leaf_hash, prover_call.leaf_index, prover_call.auth_path)

CallConstraintsHold ==
    \A c \in 1..Len(CallConstraints) : CallConstraints[c].satisfied

\* C8: generate_proof returns a proof only when every derived constraint is
\* satisfied and the final hash is the expected root; otherwise it raises and
\* no proof file is written; an unsatisfied constraint is reported before the
\* root is compared.
C8_ProverFailsFast ==
    prover_call.made =>
        /\ prover_result.returned <=>
              (CallConstraintsHold /\ CallFinalHash = prover_call.expected_root)
        /\ ~prover_result.returned => (pc = "prove_failed" /\ proof_dict = None)
        /\ ~CallConstraintsHold => prover_result.raised = ConstraintsError
        /\ (CallConstraintsHold /\ CallFinalHash # prover_call.expected_root)
              => prover_result.raised = RootError

\* a call that violates both reports the constraint error
C8_Witness ==
    /\ prover_call.made
    /\ ~CallConstraintsHold
    /\ CallFinalHash # prover_call.expected_root
    /\ prover_result.raised = ConstraintsError
    /\ pc = "prove_failed"

\* levels of sizes 1, 2, ..., N from the root down, every node the hash of its
\* two children, left first
WellFormedTree(t, ls) ==
    /\ Len(t) >= 1
    /\ t[Len(t)] = ls
    /\ Len(ls) = Pow2(Len(t) - 1)
    /\ \A l \in 1..Len(t) : Len(t[l]) = Pow2(l - 1)
    /\ \A l \in 1..(Len(t) - 1) :
          \A j \in 1..Len(t[l]) :
             t[l][j] = "(" \o t[l + 1][2 * j - 1] \o t[l + 1][2 * j] \o ")"

\* C9: tree structure: N = 2^k leaves give k+1 levels of sizes N, N/2, ..., 1,
\* node j of a level is Hash(left ++ right) of nodes 2j and 2j+1 of the level
\* below, and the single node of the top level is the root.
C9_TreeStructure ==
    /\ Committed => (WellFormedTree(tree, leaves) /\ commitment.root_hash = tree[1])
    /\ pc = "cloud_committed" => WellFormedTree(cloud_tree, leaves)

C9_Witness ==
    /\ pc = "committed"
    /\ Len(leaves) = 8
    /\ Len(tree) = 4
    /\ RootOf(commitment) = "(((ab)(cd))((ef)(gh)))"

C9_WitnessCloud ==
    /\ pc = "cloud_committed"
    /\ Len(cloud_tree) = 3
    /\ cloud_tree[1] = <<"((ab)(EE))">>

\* x with its lowest bit flipped
Xor1(x) == IF x % 2 = 0 THEN x + 1 ELSE x - 1

\* C10: authentication path shape: the path of leaf i of a tree over N = 2^k
\* leaves has exactly k entries, and entry l, counted from the leaf level, is
\* the node at position ((i div 2^l) XOR 1) of level l; for N = 1 it is empty.
C10_PathShape ==
    Committed =>
        \A b \in BlockIndices :
            LET path == Block(b).authentication_path
            IN /\ Pow2(Len(path)) = Len(leaves)
               /\ Len(path) = commitment.height - 1
               /\ \A l \in 0..(Len(path) - 1) :
                     path[l + 1] = tree[Len(tree) - l][Xor1(b \div Pow2(l)) + 1]

C10_Witness ==
    /\ pc = "committed"
    /\ Len(leaves) = 8
    /\ Block(5).authentication_path = <<"e", "(gh)", "((ab)(cd))">>

C10_WitnessSingle ==
    /\ pc = "committed"
    /\ Len(leaves) = 1
    /\ Block(0).authentication_path = <<>>

---------------------------------------------------------------------------
(* Properties of the tree classes and of the three commitments *)

\* C11: a request for the authentication path of a leaf_index >= N ends in an
\* error, for each of the three classes; it never returns a list
C11_OutOfRangeIsError ==
    (auth_call.made /\ auth_call.leaf_index >= Len(class_leaves)) => auth_result.raised

\* all three classes have been instantiated on class_leaves
AllBuilt == Built(merkle_tree) /\ Built(cloud_merkle_tree) /\ Built(standalone_merkle_tree)

\* C12: on the same leaves the three classes have the same outcome: all three
\* constructors fail, or all three build the same levels and the same root
\* digest (the only entry of MerkleTree.root and CloudMerkleTree.root, and
\* StandaloneMerkleTree.root itself) and return the same authentication path
\* for every leaf index
C12_ClassesAgree ==
    AllBuilt =>
        /\ merkle_tree.raised = cloud_merkle_tree.raised
        /\ cloud_merkle_tree.raised = standalone_merkle_tree.raised
        /\ ~merkle_tree.raised =>
              /\ merkle_tree.tree = cloud_merkle_tree.tree
              /\ cloud_merkle_tree.tree = standalone_merkle_tree.tree
              /\ merkle_tree.root = cloud_merkle_tree.root
              /\ cloud_merkle_tree.root.list[1] = standalone_merkle_tree.root
              /\ \A leaf_index \in 0..(Len(class_leaves) - 1) :
                    /\ get_authentication_path_hashes(
                           merkle_tree.tree, merkle_tree.leaf_count, leaf_index)
                       = Cloud_get_authentication_path(
                             cloud_merkle_tree.tree, cloud_merkle_tree.leaf_count, leaf_index)
                    /\ Cloud_get_authentication_path(
                           cloud_merkle_tree.tree, cloud_merkle_tree.leaf_count, leaf_index)
                       = Standalone_get_authentication_path(
                             standalone_merkle_tree.tree,
                             standalone_merkle_tree.leaf_count, leaf_index)

\* commitment["root_hash"] of generate_blocks_commitments.py with its Python
\* type: merkle_tree.root, the list tree[0] of str
root_hash_value == PyStrList(commitment.root_hash)

\* commitment["root_hash"] of cloud_data_ingestion.py: [merkle_tree.root], a
\* list holding the list tree[0]
Cloud_root_hash_value == PyStrListList(cloud_commitment.root_hash)

\* commitment["root_hash"] of standalone_audit.py: [merkle_tree.root], a list
\* holding the str tree[0][0]
Standalone_root_hash_value == PyStrList(standalone_commitment.root_hash)

\* root_hash is a list of exactly one element, the root digest (a str), and
\* replaying any committed leaf with its committed path ends in root_hash[0]
OneRootDigest(root_hash, t, c) ==
    /\ root_hash = PyList(<<PyStr(t[1][1])>>)
    /\ \A b \in 1..Len(c.block_metadata) :
          PyStr(path_loop(c.block_metadata[b].hash, b - 1,
                          c.block_metadata[b].authentication_path))
          = root_hash.list[1]

\* C13: in the commitment of each of the three pipelines root_hash is a list
\* with exactly one element, that element is the root digest string, and it
\* equals the final hash of replaying any committed leaf with its path
C13_RootHashIsOneDigest ==
    /\ Committed => OneRootDigest(root_hash_value, tree, commitment)
    /\ pc = "cloud_committed" =>
          OneRootDigest(Cloud_root_hash_value, cloud_tree, cloud_commitment)
    /\ pc = "standalone_committed" =>
          OneRootDigest(Standalone_root_hash_value, standalone_tree, standalone_commitment)

\* the same for the two pipelines other than the cloud ingestion
C13_GenerateAndStandalone ==
    /\ Committed => OneRootDigest(root_hash_value, tree, commitment)
    /\ pc = "standalone_committed" =>
          OneRootDigest(Standalone_root_hash_value, standalone_tree, standalone_commitment)

---------------------------------------------------------------------------
(* Properties of the sampler *)

\* the last call entered the selection loop and has left it
SelectionReturned ==
    /\ selector_call.made
    /\ selector_call.method \in {"select_random_blocks", "generate_audit_plan"}
    /\ selection_run # NoRun
    /\ ~selection_run.in_loop

\* the last call was select_random_blocks and it returned a list
SelectReturned == SelectionReturned /\ selector_call.method = "select_random_blocks"

\* the last call was generate_audit_plan and it returned a plan
PlanReturned == SelectionReturned /\ selector_call.method = "generate_audit_plan"

StrictlyIncreasing(xs) == \A i \in 1..(Len(xs) - 1) : xs[i] < xs[i + 1]

\* C14: for total_blocks >= 1 the list select_random_blocks returns is
\* strictly increasing and every element lies in [0, total_blocks)
C14_SortedDistinctInRange ==
    (SelectReturned /\ selector_call.total_blocks >= 1) =>
        /\ StrictlyIncreasing(selector_result.value.list)
        /\ \A i \in 1..Len(selector_result.value.list) :
              /\ 0 <= selector_result.value.list[i]
              /\ selector_result.value.list[i] < selector_call.total_blocks

\* a selection of 16 blocks out of 16 whose draws came in another order than
\* the list returned
C14_Witness ==
    /\ SelectReturned
    /\ selector_call.total_blocks = ExampleTotalBlocks
    /\ Len(selector_result.value.list) = ExampleTotalBlocks
    /\ hash_model.stride = 7

\* the loop has been entered by the last call (it may still be running)
LoopEntered == selection_run # NoRun

\* C15: the selection loop stops as soon as the set holds sample_size members
\* or the counter exceeds 10 * total_blocks: it never makes more than
\* 10 * total_blocks + 1 draws, it is left only with the set that full or the
\* counter past the bound, and the list returned has at most sample_size
\* entries
C15_LoopBounds ==
    /\ LoopEntered =>
          selection_run.counter <= SafetyFactor * selection_run.total_blocks + 1
    /\ (LoopEntered /\ selection_run.in_loop) =>
          selection_run.counter <= SafetyFactor * selection_run.total_blocks
    /\ SelectionReturned =>
          /\ \/ Cardinality(selection_run.selected_indices) >= selection_run.sample_size
             \/ selection_run.counter > SafetyFactor * selection_run.total_blocks
          /\ Cardinality(selection_run.selected_indices) <= selection_run.sample_size

\* the same for the calls whose computed sample size is not negative
C15_LoopBoundsNonNegativeSize ==
    (LoopEntered /\ selection_run.sample_size < 0) \/ C15_LoopBounds

\* the loop cannot run for ever: while a call stays in the loop every step
\* raises its counter by one
C15_LoopProgress ==
    [][(selection_run.in_loop /\ selection_run'.in_loop) =>
           selection_run'.counter = selection_run.counter + 1]_vars

\* the last selection was stopped by the safety bound with fewer indices than
\* the computed sample size
UnderSampled ==
    /\ SelectionReturned
    /\ Cardinality(selection_run.selected_indices) < selection_run.sample_size

\* what the caller gets shows the size that was asked for: the call ended in an
\* error, or it returned a plan whose sample_size is the computed sample size
\* (next to the shorter selected_blocks); a bare list shows nothing
RequestedSizeShown ==
    \/ selector_result.raised
    \/ /\ selector_call.method = "generate_audit_plan"
       /\ selector_result.value.sample_size = selection_run.sample_size

\* C16: whenever the selection stops on the safety bound with fewer indices
\* than the computed sample size, the value handed to the caller shows it
C16_UnderSamplingSurfaced == UnderSampled => RequestedSizeShown

\* the same for generate_audit_plan alone
C16_PlanSurfacesUnderSampling ==
    (UnderSampled /\ selector_call.method = "generate_audit_plan") => RequestedSizeShown

\* the block index of every draw the loop can make from seed
Draws(total_blocks, seed) ==
    [c \in 0..(SafetyFactor * total_blocks) |-> sha256_first4(seed, c) % total_blocks]

\* the selection of (total_blocks, seed, sample_size) as a function of these
\* three alone: the indices of the shortest run of draws that holds sample_size
\* distinct ones, of all 10 * total_blocks + 1 draws when no run does, and of
\* none when sample_size is not positive
SelectionOf(total_blocks, seed, sample_size) ==
    LET draw == Draws(total_blocks, seed)
        drawn(k) == {draw[c] : c \in 0..(k - 1)}
        enough == {k \in 1..(SafetyFactor * total_blocks + 1) :
                      Cardinality(drawn(k)) >= sample_size}
    IN IF sample_size <= 0 THEN {}
       ELSE IF enough = {} THEN drawn(SafetyFactor * total_blocks + 1)
       ELSE drawn(CHOOSE k \in enough : \A other \in enough : k <= other)

\* what select_random_blocks does on a selector constructed with the last
\* call's selector's configuration and not used before, given the last call's
\* four arguments and the corruption_rate argument
FreshSelector ==
    RandomBlockSelector(selector.confidence_level, selector.min_corruption_rate)

FreshSampleSize(corruption_rate) ==
    calculate_sample_size(FreshSelector, selector_call.total_blocks, corruption_rate)

FreshSelection(corruption_rate) ==
    sorted(SelectionOf(selector_call.total_blocks,
                       sha256(seed_data(selector_call.user_id, selector_call.upload_id,
                                        selector_call.audit_timestamp)),
                       FreshSampleSize(corruption_rate).value))

InUnitInterval(value) == ~AtMostZero(value) /\ ~AtLeastOne(value)

\* the selected_blocks of the plan that a selector constructed with
\* confidence_level and min_corruption_rate, and not used before, generates
\* for the four identity fields recorded in plan
SelectedBlocksFor(plan, confidence_level, min_corruption_rate) ==
    LET fresh == RandomBlockSelector(confidence_level, min_corruption_rate)
        size == calculate_sample_size(fresh, plan.total_blocks, <<min_corruption_rate>>)
        seed == sha256(seed_data(plan.user_id, plan.upload_id, plan.timestamp))
    IN sorted(SelectionOf(plan.total_blocks, seed, size.value))

\* C18 as stated: the selected_blocks of a plan are those of any plan with the
\* same total_blocks, user_id, upload_id and timestamp; here the other plan is
\* the one a selector with the constructor's default configuration generates,
\* and the plan's own selector has a confidence level and a corruption rate
\* inside (0,1)
C18_FourFieldsFixSelection ==
    (/\ PlanReturned
     /\ InUnitInterval(selector.confidence_level)
     /\ InUnitInterval(selector.min_corruption_rate)) =>
        selector_result.value.selected_blocks =
            SelectedBlocksFor(selector_result.value, PerCent(DefaultConfidenceLevel),
                              PerCent(DefaultMinCorruptionRate))

\* C18, amended: the selected_blocks of a plan are those of any plan with the
\* same total_blocks, user_id, upload_id, timestamp, target_confidence and
\* min_corruption_rate, so that recomputing the plan from these six recorded
\* fields reproduces its selection, and its cryptographic_seed is the seed of
\* the recorded user_id, upload_id and timestamp
C18_RecordedFieldsFixSelection ==
    PlanReturned =>
        /\ selector_result.value.selected_blocks =
              SelectedBlocksFor(selector_result.value,
                                selector_result.value.target_confidence,
                                selector_result.value.min_corruption_rate)
        /\ selector_result.value.cryptographic_seed =
              hex(sha256(seed_data(selector_result.value.user_id,
                                   selector_result.value.upload_id,
                                   selector_result.value.timestamp)))

\* a plan of several blocks out of more, generated with another configuration
\* than the default one by a selector that held the seed of another audit
C18_Witness ==
    /\ PlanReturned
    /\ selector_result.value.target_confidence # PerCent(DefaultConfidenceLevel)
    /\ Len(selector_result.value.selected_blocks) >= 2
    /\ Len(selector_result.value.selected_blocks) < selector_result.value.total_blocks
    /\ selection_run.seed_on_entry # None
    /\ selection_run.seed_on_entry # selection_run.seed

\* the last call was calculate_sample_size
SampleSizeCalled == selector_call.made /\ selector_call.method = "calculate_sample_size"

\* the corruption rate the last call worked with: its argument, the selector's
\* min_corruption_rate without one
CorruptionRateUsed ==
    IF selector_call.corruption_rate = <<>> THEN selector.min_corruption_rate
    ELSE selector_call.corruption_rate[1]

\* confidence, corruption rate and total_blocks of the last call are valid
ValidSampleSizeInputs ==
    /\ InUnitInterval(selector.confidence_level)
    /\ InUnitInterval(CorruptionRateUsed)
    /\ selector_call.total_blocks >= 1

\* t = ceil(ln(1 - confidence) / ln(1 - corruption_rate)) in real numbers, cut
\* at total_blocks, for confidence and corruption_rate in (0,1): with
\* a = 1e-17, ln(1 - a) is about -a, so t is 1 for a confidence of a, is 1 for
\* ln(1 - a) / ln(1 - a), and exceeds every total_blocks for a rate of a
TheoreticalMinUpTo(total_blocks, confidence, corruption_rate) ==
    LET t == IF confidence = Tiny THEN 1
             ELSE IF corruption_rate = Tiny THEN total_blocks
             ELSE CeilLogRatio(100 - confidence.per_cent, 100 - corruption_rate.per_cent)
    IN IF t <= total_blocks THEN t ELSE total_blocks

\* the sample size the last call returned is the clamped one, and lies in
\* 1..total_blocks
ClampedSampleSizeReturned ==
    /\ ~selector_result.raised
    /\ LET total_blocks == selector_call.total_blocks
           clamped == TheoreticalMinUpTo(total_blocks, selector.confidence_level,
                                         CorruptionRateUsed)
           floor == IF 3 <= total_blocks THEN 3 ELSE total_blocks
           n == selector_result.value.int
       IN /\ n = IF total_blocks < 10 /\ clamped < floor THEN floor ELSE clamped
          /\ 1 <= n /\ n <= total_blocks

\* C19: for confidence and corruption rate in (0,1) and total_blocks >= 1,
\* calculate_sample_size returns n = min(t, total_blocks) with
\* t = ceil(ln(1 - confidence) / ln(1 - corruption_rate)), raised to
\* min(3, total_blocks) when total_blocks < 10, and 1 <= n <= total_blocks
C19_ClampedSampleSize ==
    (SampleSizeCalled /\ ValidSampleSizeInputs) => ClampedSampleSizeReturned

\* C19 for a confidence and a corruption rate of at least one per cent: the
\* clamped sample size is returned; t is 59 for confidence 0.95 and corruption
\* rate 0.05, and total_blocks = 16 with t = 59 returns 16
C19_ClampedSampleSizeWholePerCent ==
    (/\ SampleSizeCalled /\ ValidSampleSizeInputs
     /\ selector.confidence_level # Tiny /\ CorruptionRateUsed # Tiny) =>
        /\ ClampedSampleSizeReturned
        /\ (/\ selector.confidence_level = PerCent(95)
            /\ CorruptionRateUsed = PerCent(5)) =>
              /\ CeilLogRatio(5, 95) = 59
              /\ selector_call.total_blocks = 16 => selector_result.value.int = 16

\* C20: calculate_sample_size raises, and returns no sample size, whenever the
\* confidence is outside (0,1), the corruption rate is outside (0,1) or
\* total_blocks <= 0; no call returns a sample size that is zero or negative
C20_InvalidInputsRejected ==
    SampleSizeCalled =>
        /\ ~ValidSampleSizeInputs => selector_result.raised
        /\ ~selector_result.raised => selector_result.value.int >= 1

\* C20 without the confidence below or at zero: calculate_sample_size raises
\* whenever the corruption rate is outside (0,1), total_blocks <= 0 or the
\* confidence is 1 or more
C20_AllButLowConfidenceRejected ==
    (SampleSizeCalled /\ (\/ AtMostZero(CorruptionRateUsed)
                          \/ AtLeastOne(CorruptionRateUsed)
                          \/ selector_call.total_blocks <= 0
                          \/ AtLeastOne(selector.confidence_level))) =>
        selector_result.raised

\* thread t has returned a plan
ThreadPlanReturned(t) ==
    plan_threads[t].pc = "returned" /\ ~plan_threads[t].result.raised

\* the seed of the user_id, upload_id and timestamp recorded in plan
SeedOfPlan(plan) == sha256(seed_data(plan.user_id, plan.upload_id, plan.timestamp))

\* C21: under every interleaving of generate_audit_plan calls on one shared
\* selector, the cryptographic_seed of each returned plan is the SHA-256 of that
\* plan's own user_id|upload_id|timestamp
C21_PlanCarriesOwnSeed ==
    \A t \in Threads :
        ThreadPlanReturned(t) =>
            plan_threads[t].result.value.cryptographic_seed =
                hex(SeedOfPlan(plan_threads[t].result.value))

\* C21 for the selection alone: the selected_blocks of each returned plan are
\* those drawn from the seed of that plan's own user_id|upload_id|timestamp
C21_PlanSelectedFromOwnSeed ==
    \A t \in Threads :
        ThreadPlanReturned(t) =>
            LET plan == plan_threads[t].result.value
            IN plan.selected_blocks =
                  sorted(SelectionOf(plan.total_blocks, SeedOfPlan(plan),
                                     plan_threads[t].run.sample_size))

\* thread t has called generate_audit_plan and its seed has been generated
ThreadCalled(t) == "run" \in DOMAIN plan_threads[t]

\* the (user_id, upload_id, audit_timestamp) of thread t's call
AuditTriple(t) ==
    <<plan_threads[t].call.user_id, plan_threads[t].call.upload_id,
      plan_threads[t].call.audit_timestamp>>

\* C29: two audits whose (user_id, upload_id, audit_timestamp) differ in any
\* component never hash the same string in generate_cryptographic_seed
C29_SeedDataInjective ==
    \A t1, t2 \in Threads :
        (ThreadCalled(t1) /\ ThreadCalled(t2) /\ AuditTriple(t1) # AuditTriple(t2)) =>
            seed_data(AuditTriple(t1)[1], AuditTriple(t1)[2], AuditTriple(t1)[3])
                # seed_data(AuditTriple(t2)[1], AuditTriple(t2)[2], AuditTriple(t2)[3])

\* the set the loop of select_random_blocks selects for a seed, total_blocks
\* and a sample size
SelectedFor(total_blocks, seed, sample_size) ==
    select_loop([total_blocks |-> total_blocks, sample_size |-> sample_size,
                 seed |-> seed, selected_indices |-> {}, counter |-> 0]).selected_indices

\* thread t has run the selection loop
ThreadSelected(t) == plan_threads[t].pc \in {"selected", "returned"} /\ ThreadCalled(t)

\* the sets selected for the sample sizes -1, 0, .., total_blocks + 1, in
\* that order
SelectionsBySampleSize(total_blocks, seed) ==
    [i \in 1..(total_blocks + 3) |-> SelectedFor(total_blocks, seed, i - 2)]

\* thread t has just left the loop and is the first thread to call (every
\* seed of a run is the seed of such a thread)
SeedFirstUsedBy(t) ==
    /\ plan_threads[t].pc = "selected"
    /\ \A other \in Threads \ {t} : plan_threads[other].pc = "idle"

\* C28: for a fixed seed and total_blocks, the set selected for sample size m
\* is a subset of the set selected for every sample size n >= m; the set a
\* thread's loop selected is the one for its seed, total_blocks and sample size
C28_SelectionGrowsWithSampleSize ==
    \A t \in Threads :
        ThreadSelected(t) =>
            LET run == plan_threads[t].run
            IN /\ run.selected_indices =
                     SelectedFor(run.total_blocks, run.seed, run.sample_size)
               /\ SeedFirstUsedBy(t) =>
                     \A total_blocks \in 1..MaxSmallBlocks :
                        LET selections == SelectionsBySampleSize(total_blocks, run.seed)
                        IN \A n \in 1..Len(selections) : \A m \in 1..n :
                              selections[m] \subseteq selections[n]

\* a thread's loop was stopped by the safety bound short of its sample size,
\* with more blocks than the one selected for sample size 1
C28_Witness ==
    \E t \in Threads :
        /\ ThreadSelected(t)
        /\ plan_threads[t].run.counter > plan_threads[t].run.total_blocks * SafetyFactor
        /\ Cardinality(plan_threads[t].run.selected_indices) < plan_threads[t].run.sample_size
        /\ SelectedFor(plan_threads[t].run.total_blocks, plan_threads[t].run.seed, 1)
              # plan_threads[t].run.selected_indices
        /\ SelectedFor(plan_threads[t].run.total_blocks, plan_threads[t].run.seed, 1) # {}

---------------------------------------------------------------------------
(* C22 *)

\* every step after step 0 of the trace holds its three strings: the two
\* hashes that are concatenated and the parent_input they are compared with
WellTypedTrace(trace) ==
    \A k \in 2..Len(trace) :
        /\ trace[k].current_hash # None
        /\ trace[k].sibling_hash # None
        /\ trace[k].parent_input # Missing

VerifyProofLeft == pc \in {"verified", "verify_raised"}

\* C22: verify_proof on a proof whose fields are all present and well-typed,
\* whatever values they were given, returns a boolean and raises nothing
C22_NoRaiseOnTampering ==
    (VerifyProofLeft /\ WellTypedTrace(proof_dict.proof_data.execution_trace))
       => /\ pc = "verified"
          /\ verdict.accept \in BOOLEAN

\* a proof changed after it was written, all its fields well-typed, was refused
C22_Witness ==
    /\ pc = "verified"
    /\ tampered
    /\ WellTypedTrace(proof_dict.proof_data.execution_trace)
    /\ Len(proof_dict.proof_data.execution_trace) > 1
    /\ ~verdict.accept

\* C22 without its premise: verify_proof raises nothing on any proof file
\* (violated: a step after step 0 that holds None as sibling_hash, or no
\* parent_input, raises TypeError or KeyError)
C22_NoRaiseOnAnyProof == pc # "verify_raised"

---------------------------------------------------------------------------
(* C24 *)

ProofReturned == prover_call.made /\ prover_result.returned

\* the three constraints of trace step k, in the order they were appended
ConstraintsOfStep(constraints, k) == SubSeq(constraints, 3 * k - 2, 3 * k)

\* C24: a proof returned by generate_proof has one trace step more than its
\* path has siblings and three constraints per sibling: for each step k >= 1
\* a hash_correctness, an index_progression and a child_position constraint
\* of step k, in that order, all satisfied; its num_queries is 32 and its
\* blowup_factor 8, which meet the verifier's minimums
C24_ReturnedProofShape ==
    ProofReturned =>
       LET proof == prover_result.proof
           proof_data == proof.proof_data
           n == Len(proof.auth_path)
       IN /\ proof_data.trace_length = n + 1
          /\ Len(proof_data.execution_trace) = n + 1
          /\ proof_data.constraint_count = 3 * n
          /\ Len(proof_data.constraints) = 3 * n
          /\ \A k \in 1..n :
                LET cs == ConstraintsOfStep(proof_data.constraints, k)
                IN /\ <<cs[1].type, cs[2].type, cs[3].type>> =
                         <<"hash_correctness", "index_progression", "child_position">>
                   /\ \A c \in 1..3 : cs[c].step = k /\ cs[c].satisfied
          /\ proof_data.num_queries = 32
          /\ proof_data.blowup_factor = 8
          /\ proof_data.num_queries >= MinNumQueries
          /\ proof_data.blowup_factor >= MinBlowupFactor

\* generate_proof returned a proof for a path of at least two siblings
C24_Witness ==
    /\ ProofReturned
    /\ Len(prover_result.proof.auth_path) >= 2
    /\ Len(prover_result.proof.proof_data.constraints) >= 6

---------------------------------------------------------------------------
(* C25 *)

\* verify_merkle_path on the four arguments of the last generate_proof call
PathReplayOfProverCall ==
    verify_merkle_path(prover_call.leaf_hash, prover_call.leaf_index,
                       prover_call.auth_path, prover_call.expected_root)

\* C25: generate_proof returns a proof exactly when verify_merkle_path on the
\* same leaf hash, path, leaf index and root returns True
\* (violated: for a leaf index other than 0 generate_proof raises on a path
\* that verify_merkle_path accepts)
C25_ProofIffPathVerifies ==
    prover_call.made => (prover_result.returned <=> PathReplayOfProverCall)

\* one direction holds: a proof is returned only for arguments that
\* verify_merkle_path accepts
C25_ProofOnlyIfPathVerifies ==
    (prover_call.made /\ prover_result.returned) => PathReplayOfProverCall

\* and on leaf index 0 the two agree
C25_AgreeOnFirstLeaf ==
    (prover_call.made /\ prover_call.leaf_index = 0)
       => (prover_result.returned <=> PathReplayOfProverCall)

---------------------------------------------------------------------------
(* C23, C27 *)

\* the last request was a status poll that found a running audit older than
\* three seconds
CompletingPoll ==
    /\ response.handler = "get_audit_status"
    /\ response.raised # "HTTPException"
    /\ response.completing

\* the verification run of that poll was made and reported tampering
TamperingReported ==
    /\ CompletingPoll
    /\ response.dir_exists
    /\ response.run.kind = "exit"
    /\ response.run.returncode = 1
    /\ response.run.stdout.marker

\* C23: when the verification run of a running audit reports a failed block,
\* the poll returns, the audit is recorded as failed with tamperingDetected
\* set, and the per-block results and the passed / failed counts are stored
\* (violated: the tampering branch reads the undefined name blocks_passed and
\* the poll ends in NameError with the audit still running)
C23_TamperingRecorded ==
    TamperingReported =>
       /\ response.raised = None
       /\ audits[response.audit_id].status = "failed"
       /\ audits[response.audit_id].results.tamperingDetected
       /\ Len(audits[response.audit_id].results.verificationResults)
             = Len(audits[response.audit_id].selected_blocks)
       /\ audits[response.audit_id].results.blocksFailed >= 1
       /\ audits[response.audit_id].results.blocksPassed
             + audits[response.audit_id].results.blocksFailed
             = audits[response.audit_id].results.blocksAudited

\* what does hold: an audit is recorded as failed only by a poll whose run
\* exited with a code other than 0 without the tampering report, and then
\* with no failed block counted
C23_FailedOnlyWithoutReport ==
    \A a \in AuditIds :
        (audits[a].started /\ audits[a].status = "failed")
           => /\ ~audits[a].results.tamperingDetected
              /\ audits[a].results.blocksFailed = 0
              /\ audits[a].results.verificationResults = <<>>

\* C27: a poll made more than three seconds after the start of a running
\* audit returns with the audit in status success or failed, whatever the
\* verification step ended in
\* (violated: the poll raises and the audit stays running when tampering is
\* reported, and when the run timed out, raised or was not made)
C27_PollCompletesAudit ==
    CompletingPoll =>
       /\ response.raised = None
       /\ audits[response.audit_id].status \in {"success", "failed"}

\* what does hold: the poll completes the audit when the run was made and
\* exited without the tampering report
C27_PollCompletesAfterPlainExit ==
    (/\ CompletingPoll
     /\ response.dir_exists
     /\ response.run.kind = "exit"
     /\ ~TamperingReported)
       => /\ response.raised = None
          /\ audits[response.audit_id].status
                = IF response.run.returncode = 0 THEN "success" ELSE "failed"

\* and in every other case the poll raises and leaves the audit running
C27_PollRaisesOtherwise ==
    (/\ CompletingPoll
     /\ \/ ~response.dir_exists
        \/ response.run.kind # "exit"
        \/ TamperingReported)
       => /\ response.raised \in {"UnboundLocalError", "NameError"}
          /\ audits[response.audit_id].status = "running"

---------------------------------------------------------------------------
(* C26, C30 *)

SplitReturned == split_run.pc \in {"returned", "asserted"}

\* C26: the split returns as many blocks as the total it returns, the total
\* is a power of two and at least ceil(file_size / target_block_size), and
\* neither assertion of create_merkle_commitment fails on it
C26_BlockCountPowerOfTwo ==
    SplitReturned =>
       /\ ~split_result.raised
       /\ Len(split_result.value.block_metadata) = split_result.value.total_blocks
       /\ \E k \in 0..split_result.value.total_blocks :
              split_result.value.total_blocks = Pow2(k)
       /\ split_result.value.total_blocks
             >= CeilDiv(split_run.file_size, split_run.target_block_size_bytes)

\* create_merkle_commitment passed its assertions on a split of an estimate
\* of three blocks, returned as four
C26_Witness ==
    /\ split_run.pc = "asserted"
    /\ ~split_result.raised
    /\ split_run.estimated_blocks = 3
    /\ split_result.value.total_blocks = 4

\* the rows of the blocks, in block order
RECURSIVE RowsOfBlocks(_)
RowsOfBlocks(block_metadata) ==
    IF block_metadata = <<>> THEN <<>>
    ELSE LET last == block_metadata[Len(block_metadata)]
         IN RowsOfBlocks(SubSeq(block_metadata, 1, Len(block_metadata) - 1))
               \o [i \in 1..(last.end_row - last.first_row) |-> last.first_row + i]

\* C30: the blocks of a split, concatenated in index order, hold every row
\* of the input once and in order, and current_row ends at total_rows
\* (violated: the number of blocks is fixed from the file size before the
\* loop, and the rows left when the last block is written are dropped)
C30_NoRowLost ==
    SplitReturned =>
       /\ split_run.current_row = split_run.total_rows
       /\ RowsOfBlocks(split_run.block_metadata) = [i \in 1..split_run.total_rows |-> i]

\* what does hold: the blocks hold the first current_row rows once and in
\* order
C30_BlocksHoldLeadingRows ==
    split_run.pc # "idle" =>
       /\ split_run.current_row <= split_run.total_rows
       /\ RowsOfBlocks(split_run.block_metadata) = [i \in 1..split_run.current_row |-> i]

====
